---------------------------- MODULE Spec2Model ----------------------------
(***************************************************************************)
(* yacd: make log -> compile_commands.json.                                *)
(*                                                                         *)
(* A Go string is modelled as the sequence of its bytes; every byte is a   *)
(* one-character TLA+ string.  Str("gcc -c") is the Go string "gcc -c".    *)
(* The host is a Unix system: the path separator is "/".                   *)
(***************************************************************************)
EXTENDS Integers, Sequences, FiniteSets, TLC

\* ------------------------------------------------------------------------
\* Go strings
\* ------------------------------------------------------------------------

\* The bytes of a string literal.
Str(s) == [i \in 1..Len(s) |-> SubSeq(s, i, i)]

\* TLA+ string literals cannot contain the backquote; this byte stands for it.
BackTick == "~"

\* The two bytes of the UTF-8 encoding of a rune outside ASCII (U+00E9).
RuneLead == "#C3"
RuneCont == "#A9"

IsSpace(c) == c \in {" ", "\t", "\r", "\n"}

IsDigit(c) == c \in {"0", "1", "2", "3", "4", "5", "6", "7", "8", "9"}

Max(S) == CHOOSE x \in S : \A y \in S : y <= x

Min(S) == CHOOSE x \in S : \A y \in S : x <= y

\* strings.HasPrefix(s[i-1:], p), with i a 1-based position in s.
HasPrefixAt(s, i, p) ==
    /\ i >= 1
    /\ i + Len(p) - 1 <= Len(s)
    /\ SubSeq(s, i, i + Len(p) - 1) = p

HasPrefix(s, p) == HasPrefixAt(s, 1, p)

HasSuffix(s, p) == Len(p) <= Len(s) /\ HasPrefixAt(s, Len(s) - Len(p) + 1, p)

\* strings.Index, 1-based; 0 when p does not occur in s.
Index(s, p) ==
    LET at == {i \in 1..(Len(s) + 1) : HasPrefixAt(s, i, p)}
    IN  IF at = {} THEN 0 ELSE Min(at)

Contains(s, p) == Index(s, p) # 0

TrimSpace(s) ==
    LET ns == {i \in 1..Len(s) : ~IsSpace(s[i])}
    IN  IF ns = {} THEN <<>> ELSE SubSeq(s, Min(ns), Max(ns))

\* strings.ToLower on the letters of the alphabet in use.
LowerOf(c) ==
    CASE c = "C" -> "c"
      [] c = "S" -> "s"
      [] c = "P" -> "p"
      [] c = "X" -> "x"
      [] c = "A" -> "a"
      [] c = "M" -> "m"
      [] OTHER -> c

ToLower(s) == [i \in 1..Len(s) |-> LowerOf(s[i])]

\* strings.Join(parts, sep)
RECURSIVE JoinStr(_, _)
JoinStr(parts, sep) ==
    IF parts = <<>> THEN <<>>
    ELSE IF Len(parts) = 1 THEN parts[1]
    ELSE parts[1] \o sep \o JoinStr(Tail(parts), sep)

\* strings.Fields: the maximal runs of non-space bytes, in order.
RECURSIVE FieldsFrom(_, _, _)
FieldsFrom(s, i, cur) ==
    IF i > Len(s) THEN (IF cur = <<>> THEN <<>> ELSE <<cur>>)
    ELSE IF IsSpace(s[i])
         THEN (IF cur = <<>> THEN <<>> ELSE <<cur>>) \o FieldsFrom(s, i + 1, <<>>)
         ELSE FieldsFrom(s, i + 1, Append(cur, s[i]))

Fields(s) == FieldsFrom(s, 1, <<>>)


\* ------------------------------------------------------------------------
\* Regular expressions (package regexp: leftmost match, greedy repetition
\* with backtracking)
\* ------------------------------------------------------------------------

\* The character classes the patterns use: \s, \S, \d; any other class name
\* is a literal byte.
InClass(c, cls) ==
    CASE cls = "\\s" -> c \in {" ", "\t", "\r", "\n"}
      [] cls = "\\S" -> c \notin {" ", "\t", "\r", "\n"}
      [] cls = "\\d" -> IsDigit(c)
      [] OTHER -> c = cls

\* A pattern element: one byte of a class, or one or more of them.
One(cls) == [cls |-> cls, plus |-> FALSE]

Plus(cls) == [cls |-> cls, plus |-> TRUE]

Lit(s) == [i \in 1..Len(s) |-> One(SubSeq(s, i, i))]

\* The anchor $: matches the empty string at the end of the text.
AtEnd == One("$end")

\* Length of the longest run of bytes of class cls that starts at s[i].
RECURSIVE RunLen(_, _, _)
RunLen(s, i, cls) ==
    IF i <= Len(s) /\ InClass(s[i], cls) THEN 1 + RunLen(s, i + 1, cls) ELSE 0

\* The position after the match of pat[k..] that starts at s[i]; 0 when
\* pat[k..] does not match there.
RECURSIVE MatchEnd(_, _, _, _)
MatchEnd(s, i, pat, k) ==
    IF k > Len(pat) THEN i
    ELSE IF pat[k].plus
         THEN LET run == RunLen(s, i, pat[k].cls)
                  ok  == {n \in 1..run : MatchEnd(s, i + n, pat, k + 1) # 0}
              IN  IF ok = {} THEN 0 ELSE MatchEnd(s, i + Max(ok), pat, k + 1)
         ELSE IF pat[k].cls = "$end"
              THEN (IF i > Len(s) THEN MatchEnd(s, i, pat, k + 1) ELSE 0)
         ELSE IF i <= Len(s) /\ InClass(s[i], pat[k].cls)
              THEN MatchEnd(s, i + 1, pat, k + 1)
              ELSE 0

\* regexp.ReplaceAllString(s, ""): the leftmost non-overlapping matches of
\* pat are deleted.
RECURSIVE DeleteAllFrom(_, _, _)
DeleteAllFrom(s, i, pat) ==
    IF i > Len(s) THEN <<>>
    ELSE LET e == MatchEnd(s, i, pat, 1)
         IN  IF e # 0 THEN DeleteAllFrom(s, e, pat)
             ELSE <<s[i]>> \o DeleteAllFrom(s, i + 1, pat)

DeleteAll(s, pat) == DeleteAllFrom(s, 1, pat)

\* commonCompilers = (gcc|g\+\+|clang|clang\+\+|cc)
commonCompilers ==
    <<Str("gcc"), Str("g++"), Str("clang"), Str("clang++"), Str("cc")>>

\* compilerRegex.MatchString(s): the pattern is not anchored.
compilerRegexMatch(s) ==
    \E a \in 1..Len(commonCompilers) : Contains(s, commonCompilers[a])

\* ^make(\[\d+\])?: <word> directory '(.+)' with word Entering or Leaving.
\* The result is [ok, dir]: whether the line matches, and group 2.
makeDirMatch(line, word) ==
    LET afterMake == 5
        digits    == RunLen(line, afterMake + 1, "\\d")
        level     == /\ HasPrefixAt(line, afterMake, Str("["))
                     /\ digits >= 1
                     /\ HasPrefixAt(line, afterMake + 1 + digits, Str("]"))
        p         == IF level THEN afterMake + digits + 2 ELSE afterMake
        mid       == Str(": ") \o word \o Str(" directory '")
        q         == p + Len(mid)
        closing   == {j \in (q + 1)..Len(line) : line[j] = "'"}
    IN  IF HasPrefix(line, Str("make")) /\ HasPrefixAt(line, p, mid) /\ closing # {}
        THEN [ok |-> TRUE, dir |-> SubSeq(line, q, Max(closing) - 1)]
        ELSE [ok |-> FALSE, dir |-> <<>>]

\* makeDirEnterPattern
makeDirEnterRegex(line) == makeDirMatch(line, Str("Entering"))

\* makeDirLeavePattern
makeDirLeaveRegex(line) == makeDirMatch(line, Str("Leaving"))

\* cdPattern = ^\s*cd\s+([^&]+)\s*&&\s*(.+)$ ; the result is
\* [ok, dir, rest] with the two groups as the caller trims them.
cdPatternMatch(line) ==
    LET lead == RunLen(line, 1, "\\s")
        p    == lead + 3
        amps == {k \in p..Len(line) : line[k] = "&"}
        k    == IF amps = {} THEN 0 ELSE Min(amps)
    IN  IF /\ HasPrefixAt(line, lead + 1, Str("cd"))
           /\ p <= Len(line) /\ IsSpace(line[p])
           /\ k >= p + 2
           /\ HasPrefixAt(line, k, Str("&&"))
           /\ k + 2 <= Len(line)
        THEN [ok |-> TRUE,
              dir |-> TrimSpace(SubSeq(line, p, k - 1)),
              rest |-> TrimSpace(SubSeq(line, k + 2, Len(line)))]
        ELSE [ok |-> FALSE, dir |-> <<>>, rest |-> <<>>]

\* ------------------------------------------------------------------------
\* Package pathutil and path/filepath (Unix)
\* ------------------------------------------------------------------------

Slash == Str("/")

\* strings.Split(s, "/")
RECURSIVE SplitSlashFrom(_, _, _)
SplitSlashFrom(s, i, cur) ==
    IF i > Len(s) THEN <<cur>>
    ELSE IF s[i] = "/" THEN <<cur>> \o SplitSlashFrom(s, i + 1, <<>>)
    ELSE SplitSlashFrom(s, i + 1, Append(cur, s[i]))

SplitSlash(s) == SplitSlashFrom(s, 1, <<>>)

\* The elements of a path that Clean keeps: empty and "." elements are
\* dropped, ".." removes the element before it, a ".." that would climb
\* above the root is dropped and one that climbs above a relative start is
\* kept.
RECURSIVE CleanElems(_, _, _)
CleanElems(elems, rooted, out) ==
    IF elems = <<>> THEN out
    ELSE LET e == Head(elems)
             r == Tail(elems)
         IN  IF e = <<>> \/ e = Str(".") THEN CleanElems(r, rooted, out)
             ELSE IF e = Str("..")
                  THEN IF out # <<>> /\ out[Len(out)] # Str("..")
                       THEN CleanElems(r, rooted, SubSeq(out, 1, Len(out) - 1))
                       ELSE IF rooted THEN CleanElems(r, rooted, out)
                       ELSE CleanElems(r, rooted, Append(out, e))
                  ELSE CleanElems(r, rooted, Append(out, e))

\* filepath.IsAbs
IsAbs(path) == HasPrefix(path, Slash)

\* The path of the cleaned elements elems, rooted or not.
pathOfElems(rooted, elems) ==
    IF rooted THEN Slash \o JoinStr(elems, Slash)
    ELSE IF elems = <<>> THEN Str(".")
    ELSE JoinStr(elems, Slash)

\* filepath.Clean
Clean(path) ==
    pathOfElems(IsAbs(path), CleanElems(SplitSlash(path), IsAbs(path), <<>>))

\* filepath.Join: empty elements are ignored, the rest is joined and cleaned;
\* the result is empty when every element is empty.
Join(elements) ==
    LET nonEmpty == SelectSeq(elements, LAMBDA e : e # <<>>)
    IN  IF nonEmpty = <<>> THEN <<>> ELSE Clean(JoinStr(nonEmpty, Slash))

\* Length of the longest common prefix of two element lists.
RECURSIVE CommonLen(_, _)
CommonLen(a, b) ==
    IF a # <<>> /\ b # <<>> /\ Head(a) = Head(b)
    THEN 1 + CommonLen(Tail(a), Tail(b))
    ELSE 0

\* The non-empty elements of a path.
Elements(path) == SelectSeq(SplitSlash(path), LAMBDA e : e # <<>>)

\* filepath.Rel from the element lists on, n being the number of leading
\* elements they share: one ".." for each further element of the base,
\* then the further elements of the target.
RelFrom(bElems, tElems, n) ==
    IF \E i \in (n + 1)..Len(bElems) : bElems[i] = Str("..")
    THEN [ok |-> FALSE, path |-> <<>>]
    ELSE [ok |-> TRUE,
          path |-> JoinStr([i \in 1..(Len(bElems) - n) |-> Str("..")]
                           \o SubSeq(tElems, n + 1, Len(tElems)), Slash)]

RelElems(bElems, tElems) == RelFrom(bElems, tElems, CommonLen(bElems, tElems))

\* filepath.Rel from the cleaned paths on.
RelClean(base, targ) ==
    IF targ = base THEN [ok |-> TRUE, path |-> Str(".")]
    ELSE IF IsAbs(base) # IsAbs(targ) THEN [ok |-> FALSE, path |-> <<>>]
    ELSE RelElems(IF base = Str(".") \/ base = Slash THEN <<>> ELSE Elements(base),
                  IF targ = Slash THEN <<>> ELSE Elements(targ))

\* filepath.Rel(basepath, targpath): [ok, path]; ok is FALSE where Rel
\* returns an error.
Rel(basepath, targpath) == RelClean(Clean(basepath), Clean(targpath))

\* filepath.Ext: the suffix that starts at the last dot of the last element.
Ext(path) ==
    LET slashes == {i \in 1..Len(path) : path[i] = "/"}
        from    == IF slashes = {} THEN 1 ELSE Max(slashes) + 1
        dots    == {i \in from..Len(path) : path[i] = "."}
    IN  IF dots = {} THEN <<>> ELSE SubSeq(path, Max(dots), Len(path))

\* filepath.Dir
Dir(path) ==
    LET slashes == {i \in 1..Len(path) : path[i] = "/"}
    IN  IF slashes = {} THEN Str(".") ELSE Clean(SubSeq(path, 1, Max(slashes)))

IsAbsolutePath(path) ==
    \/ IsAbs(path)
    \/ Len(path) > 0 /\ path[1] = "/"
    \/ Len(path) > 0 /\ path[1] = "\\"

ResolveRelativePath(baseDir, relativePath) ==
    IF IsAbsolutePath(relativePath) THEN relativePath
    ELSE Join(<<baseDir, relativePath>>)

ToRelativePath(basePath, targetPath) == Rel(basePath, targetPath)

NormalizePath(path) == Clean(path)

JoinPaths(elements) == Clean(Join(elements))

GetDirectoryFromPath(filePath) == Dir(filePath)

sourceExts ==
    <<Str(".c"), Str(".cpp"), Str(".cc"), Str(".cxx"), Str(".c++"),
      Str(".s"), Str(".S"), Str(".asm")>>

IsSourceFile(filename) ==
    LET ext == ToLower(Ext(filename))
    IN  \E i \in 1..Len(sourceExts) : ext = sourceExts[i]

\* ------------------------------------------------------------------------
\* Package parser: the line-level functions
\* ------------------------------------------------------------------------

\* A compilation record that was not produced (the nil *MakeLogEntry).
NoEntry == [nil |-> TRUE]

MakeLogEntry(workingDir, compiler, args, sourceFile, outputFile) ==
    [nil |-> FALSE, WorkingDir |-> workingDir, Compiler |-> compiler,
     Args |-> args, SourceFile |-> sourceFile, OutputFile |-> outputFile]

IsAlnum(c) ==
    \/ IsDigit(c)
    \/ c \in {"a", "b", "c", "d", "e", "f", "g", "h", "i", "j", "k", "l", "m",
              "n", "o", "p", "q", "r", "s", "t", "u", "v", "w", "x", "y", "z"}
    \/ c \in {"A", "B", "C", "D", "E", "F", "G", "H", "I", "J", "K", "L", "M",
              "N", "O", "P", "Q", "R", "S", "T", "U", "V", "W", "X", "Y", "Z"}

IsQuote(c) == c \in {"'", "\""}

\* echoPattern = echo\s+['"]([^'"]+)['"] : group 1 of the leftmost match,
\* <<>> when there is none.
echoPattern(command) ==
    LET GroupAt(i) ==
            LET ws == RunLen(command, i + 4, "\\s")
                q  == i + 4 + ws
                cl == {r \in (q + 1)..Len(command) : IsQuote(command[r])}
            IN  IF /\ HasPrefixAt(command, i, Str("echo"))
                   /\ ws >= 1
                   /\ q <= Len(command) /\ IsQuote(command[q])
                   /\ cl # {} /\ Min(cl) > q + 1
                THEN SubSeq(command, q + 1, Min(cl) - 1)
                ELSE <<>>
        at == {i \in 1..Len(command) : GroupAt(i) # <<>>}
    IN  IF at = {} THEN <<>> ELSE GroupAt(Min(at))

\* echoPatternNoQuotes = echo\s+([^\s]+)
echoPatternNoQuotes(command) ==
    LET GroupAt(i) ==
            LET ws == RunLen(command, i + 4, "\\s")
                q  == i + 4 + ws
                n  == RunLen(command, q, "\\S")
            IN  IF HasPrefixAt(command, i, Str("echo")) /\ ws >= 1 /\ n >= 1
                THEN SubSeq(command, q, q + n - 1)
                ELSE <<>>
        at == {i \in 1..Len(command) : GroupAt(i) # <<>>}
    IN  IF at = {} THEN <<>> ELSE GroupAt(Min(at))

\* The group first unless it is empty, and then the group second.
groupOrElse(first, second) == IF first # <<>> THEN first ELSE second

extractPathFromCommand(command) ==
    groupOrElse(echoPattern(command), echoPatternNoQuotes(command))

\* backtickPattern.FindAllStringSubmatch(line, -1): the matches from
\* position i on, each as [full, command].
RECURSIVE backtickMatches(_, _)
backtickMatches(line, i) ==
    LET open == {a \in i..Len(line) : line[a] = BackTick}
    IN  IF open = {} THEN <<>>
        ELSE LET a     == Min(open)
                 close == {b \in (a + 1)..Len(line) : line[b] = BackTick}
             IN  IF close = {} THEN <<>>
                 ELSE LET b == Min(close)
                      IN  <<[full |-> SubSeq(line, a, b),
                             command |-> SubSeq(line, a + 1, b - 1)]>>
                          \o backtickMatches(line, b + 1)

\* strings.Replace(s, old, new, 1)
ReplaceFirst(s, old, new) ==
    LET at == Index(s, old)
    IN  IF at = 0 THEN s
        ELSE SubSeq(s, 1, at - 1) \o new \o SubSeq(s, at + Len(old), Len(s))

\* The loop of processBacktickSubstitution over the matches.
RECURSIVE substituteMatches(_, _)
substituteMatches(result, matches) ==
    IF matches = <<>> THEN result
    ELSE LET fullMatch     == Head(matches).full
             extractedPath == extractPathFromCommand(Head(matches).command)
             \* 1-based position of result[backtickEndIndex]
             afterMatch    == Index(result, fullMatch) + Len(fullMatch)
             replacementText ==
                 IF /\ afterMatch >= 1 /\ afterMatch <= Len(result)
                    /\ IsAlnum(result[afterMatch])
                    /\ ~HasSuffix(extractedPath, Slash)
                 THEN extractedPath \o Str(" ")
                 ELSE extractedPath
         IN  IF extractedPath # <<>>
             THEN substituteMatches(ReplaceFirst(result, fullMatch, replacementText),
                                    Tail(matches))
             ELSE substituteMatches(ReplaceFirst(result, fullMatch, <<>>),
                                    Tail(matches))

processBacktickSubstitution(line) ==
    substituteMatches(line, backtickMatches(line, 1))

redirectionPatterns ==
    << <<Plus("\\s")>> \o Lit("2>&1"),
       <<Plus("\\s")>> \o Lit(">&1"),
       <<Plus("\\s")>> \o Lit(">") \o <<Plus("\\S")>>,
       <<Plus("\\s")>> \o Lit(">>") \o <<Plus("\\S")>>,
       <<Plus("\\s")>> \o Lit("<") \o <<Plus("\\S")>>,
       <<Plus("\\s")>> \o Lit("2>") \o <<Plus("\\S")>>,
       <<Plus("\\s")>> \o Lit("2>>") \o <<Plus("\\S")>>,
       <<Plus("\\s"), Plus("\\d")>> \o Lit(">&") \o <<Plus("\\d")>>,
       <<Plus("\\s"), Plus("\\d")>> \o Lit(">") \o <<Plus("\\S")>>,
       <<Plus("\\s"), Plus("\\d")>> \o Lit(">>") \o <<Plus("\\S")>>,
       <<Plus("\\s")>> \o Lit("2>&1") \o <<AtEnd>>,
       <<Plus("\\s")>> \o Lit(">&1") \o <<AtEnd>> >>

\* The loop of removeRedirectionOperators over the patterns.
RECURSIVE removePatterns(_, _)
removePatterns(cleanLine, patterns) ==
    IF patterns = <<>> THEN cleanLine
    ELSE removePatterns(DeleteAll(cleanLine, Head(patterns)), Tail(patterns))

removeRedirectionOperators(line) ==
    TrimSpace(removePatterns(processBacktickSubstitution(line), redirectionPatterns))

\* findCompilerStartIndex: the 0-based byte offset, -1 when no compiler.
findCompilerStartIndex(line) ==
    LET words == Fields(line)
        found == {i \in 1..Len(words) : compilerRegexMatch(words[i])}
        PrefixLen[j \in 0..Len(words)] ==
            IF j = 0 THEN 0 ELSE PrefixLen[j - 1] + Len(words[j]) + 1
    IN  IF found # {} THEN PrefixLen[Min(found) - 1]
        ELSE IF compilerRegexMatch(line) THEN 0
        ELSE -1

\* The rune that starts at byte i of line, as range decodes it: its width
\* in bytes and the bytes WriteRune appends for it.  A byte that is not the
\* start of a well-formed encoding decodes to U+FFFD, one byte wide.
RuneError == <<"#EF", "#BF", "#BD">>

DecodeRune(line, i) ==
    IF line[i] = RuneLead
    THEN IF i < Len(line) /\ line[i + 1] = RuneCont
         THEN [width |-> 2, bytes |-> <<RuneLead, RuneCont>>]
         ELSE [width |-> 1, bytes |-> RuneError]
    ELSE IF line[i] \in {RuneCont, "#EF", "#BF", "#BD"}
         THEN [width |-> 1, bytes |-> RuneError]
    ELSE [width |-> 1, bytes |-> <<line[i]>>]

\* The loop of splitCommandLine from the rune at byte i (1-based) on; the
\* loop variable of the source is i - 1.
RECURSIVE splitFrom(_, _, _, _, _, _)
splitFrom(line, i, args, current, inQuotes, escaped) ==
    IF i > Len(line) THEN args
    ELSE LET rune == DecodeRune(line, i)
             char == line[i]
             \* the switch
             flush    == ~escaped /\ char # "\\" /\ ~IsQuote(char)
                         /\ char = " " /\ ~inQuotes
             args1    == IF flush /\ current # <<>> THEN Append(args, current)
                         ELSE args
             current1 == IF escaped THEN current \o rune.bytes
                         ELSE IF char = "\\" \/ IsQuote(char) THEN current
                         ELSE IF flush THEN <<>>
                         ELSE current \o rune.bytes
             escaped1 == ~escaped /\ char = "\\"
             inQuotes1 == IF ~escaped /\ char # "\\" /\ IsQuote(char)
                          THEN ~inQuotes ELSE inQuotes
             \* handle end of line case
             args2    == IF (i - 1) = Len(line) - 1 /\ current1 # <<>>
                         THEN Append(args1, current1)
                         ELSE args1
         IN  splitFrom(line, i + rune.width, args2, current1, inQuotes1, escaped1)

splitCommandLine(line) == splitFrom(line, 1, <<>>, <<>>, FALSE, FALSE)

isSourceFile(filename) == IsSourceFile(filename)

\* An extractFiles loop that keeps the first source file it meets.
RECURSIVE extractFirstSourceFrom(_, _, _, _)
extractFirstSourceFrom(args, i, sourceFile, outputFile) ==
    IF i > Len(args) THEN [sourceFile |-> sourceFile, outputFile |-> outputFile]
    ELSE IF args[i] = Str("-o") /\ i + 1 <= Len(args)
         THEN extractFirstSourceFrom(args, i + 1, sourceFile, args[i + 1])
    ELSE IF IsSourceFile(args[i]) /\ sourceFile = <<>>
         THEN extractFirstSourceFrom(args, i + 1, args[i], outputFile)
    ELSE extractFirstSourceFrom(args, i + 1, sourceFile, outputFile)

\* An extractFiles loop that keeps the first output file it meets.
RECURSIVE extractFirstOutputFrom(_, _, _, _)
extractFirstOutputFrom(args, i, sourceFile, outputFile) ==
    IF i > Len(args) THEN [sourceFile |-> sourceFile, outputFile |-> outputFile]
    ELSE IF args[i] = Str("-o") /\ i + 1 <= Len(args)
         THEN extractFirstOutputFrom(args, i + 1, sourceFile,
                                     IF outputFile = <<>> THEN args[i + 1]
                                     ELSE outputFile)
    ELSE IF IsSourceFile(args[i])
         THEN extractFirstOutputFrom(args, i + 1, args[i], outputFile)
    ELSE extractFirstOutputFrom(args, i + 1, sourceFile, outputFile)

\* The loop of extractFiles from args[i] on: [sourceFile, outputFile].
RECURSIVE extractFrom(_, _, _, _)
extractFrom(args, i, sourceFile, outputFile) ==
    IF i > Len(args) THEN [sourceFile |-> sourceFile, outputFile |-> outputFile]
    ELSE IF args[i] = Str("-o") /\ i + 1 <= Len(args)
         THEN extractFrom(args, i + 1, sourceFile, args[i + 1])
    ELSE IF isSourceFile(args[i])
         THEN extractFrom(args, i + 1, args[i], outputFile)
    ELSE extractFrom(args, i + 1, sourceFile, outputFile)

extractFiles(args) == extractFrom(args, 1, <<>>, <<>>)

\* The last steps of parseDirectCompileCommand and parseCompilerCommandOnly,
\* which are the same in both: the record of the arguments and their files
\* in the working directory workingDir.
entryOfFiles(workingDir, args, files) ==
    IF files.sourceFile = <<>> THEN NoEntry
    ELSE MakeLogEntry(workingDir, args[1], args, files.sourceFile, files.outputFile)

\* The steps from the arguments on.
entryOfArgs(workingDir, args) ==
    IF Len(args) = 0 THEN NoEntry
    ELSE entryOfFiles(workingDir, args, extractFiles(args))

\* The steps from the compiler start index on.
entryOfCompilerStart(workingDir, cleanLine, compilerStartIndex) ==
    IF compilerStartIndex = -1 THEN NoEntry
    ELSE entryOfArgs(workingDir,
                     splitCommandLine(SubSeq(cleanLine, compilerStartIndex + 1,
                                             Len(cleanLine))))

\* The steps from the line without redirections on.
entryOfCleanLine(workingDir, cleanLine) ==
    entryOfCompilerStart(workingDir, cleanLine, findCompilerStartIndex(cleanLine))

\* parseCompilerCommandOnly: the record with an empty working directory.
parseCompilerCommandOnly(line) ==
    entryOfCleanLine(<<>>, removeRedirectionOperators(line))

\* The top of a directory stack, empty when the stack is.
Top(stack) == IF Len(stack) > 0 THEN stack[Len(stack)] ELSE <<>>

resolveRelativePath(baseDir, relativePath) ==
    ResolveRelativePath(baseDir, relativePath)

\* The record entry, if any, in the working directory workingDir.
inWorkingDir(entry, workingDir) ==
    IF entry.nil THEN NoEntry ELSE [entry EXCEPT !.WorkingDir = workingDir]

\* A parseShellCommandChain that takes the directory of the cd command as
\* it stands, without resolving it against the top of the stack.
parseShellCommandChainUnresolved(stack, line) ==
    IF ~cdPatternMatch(line).ok THEN NoEntry
    ELSE inWorkingDir(parseCompilerCommandOnly(cdPatternMatch(line).rest),
                      cdPatternMatch(line).dir)

\* parseShellCommandChain from the match of cdPattern on.
chainEntry(stack, matches) ==
    IF ~matches.ok THEN NoEntry
    ELSE inWorkingDir(parseCompilerCommandOnly(matches.rest),
                      resolveRelativePath(Top(stack), matches.dir))

\* parseShellCommandChain with p.dirStack = stack.
parseShellCommandChain(stack, line) == chainEntry(stack, cdPatternMatch(line))

\* A parseDirectCompileCommand that leaves the working directory out, as
\* parseCompilerCommandOnly does.
parseDirectCompileCommandNoDir(stack, line) ==
    parseCompilerCommandOnly(line)

\* parseDirectCompileCommand with p.dirStack = stack.
parseDirectCompileCommand(stack, line) ==
    entryOfCleanLine(Top(stack), removeRedirectionOperators(line))

\* The record entry unless it is nil, and then the record other.
entryOrElse(entry, other) == IF ~entry.nil THEN entry ELSE other

\* parseCompileCommand with p.dirStack = stack.
parseCompileCommand(stack, line) ==
    IF HasPrefix(TrimSpace(line), Str("echo ")) THEN NoEntry
    ELSE IF compilerRegexMatch(line)
         THEN entryOrElse(parseShellCommandChain(stack, line),
                          parseDirectCompileCommand(stack, line))
    ELSE NoEntry

\* ------------------------------------------------------------------------
\* Package generator
\* ------------------------------------------------------------------------

CompilationEntry(directory, command, arguments, file, output) ==
    [Directory |-> directory, Command |-> command, Arguments |-> arguments,
     File |-> file, Output |-> output]

\* The path as it is, whatever the conversion rel has given.
pathKept(rel, path) == path

\* The path rel.path if the conversion rel succeeded, else path.
pathOr(rel, path) == IF rel.ok THEN rel.path ELSE path

\* convertToCompilationEntry: a path made relative to the base directory
\* when relative paths are asked for and a base directory is set.
relativeToBase(opts, path) ==
    IF opts.UseRelativePaths /\ opts.BaseDir # <<>>
    THEN pathOr(ToRelativePath(opts.BaseDir, path), path)
    ELSE path

\* convertToCompilationEntry, from directory (the working directory, "."
\* when that is empty) on.
entryInDirectory(opts, entry, directory) ==
    CompilationEntry(
        NormalizePath(relativeToBase(opts, directory)),
        <<>>,
        entry.Args,
        NormalizePath(relativeToBase(opts,
            IF ~IsAbsolutePath(entry.SourceFile) /\ directory # <<>>
            THEN JoinPaths(<<directory, entry.SourceFile>>)
            ELSE entry.SourceFile)),
        IF entry.OutputFile # <<>>
        THEN NormalizePath(relativeToBase(opts,
                 IF ~IsAbsolutePath(entry.OutputFile) /\ entry.WorkingDir # <<>>
                 THEN JoinPaths(<<entry.WorkingDir, entry.OutputFile>>)
                 ELSE entry.OutputFile))
        ELSE <<>>)

\* Generator.convertToCompilationEntry: [entry, err], and err is always nil.
convertToCompilationEntry(opts, entry) ==
    [entry |-> entryInDirectory(opts, entry,
                                IF entry.WorkingDir = <<>> THEN Str(".")
                                ELSE entry.WorkingDir),
     err   |-> ""]

\* A GenerateCompileCommands that puts each entry in front of the earlier
\* ones.
RECURSIVE GenerateCompileCommandsPrepending(_, _)
GenerateCompileCommandsPrepending(opts, records) ==
    IF records = <<>> THEN <<>>
    ELSE GenerateCompileCommandsPrepending(opts, Tail(records))
         \o <<convertToCompilationEntry(opts, Head(records)).entry>>

\* Generator.GenerateCompileCommands: a record whose conversion fails is
\* skipped.
RECURSIVE GenerateCompileCommands(_, _)
GenerateCompileCommands(opts, records) ==
    IF records = <<>> THEN <<>>
    ELSE LET converted == convertToCompilationEntry(opts, Head(records))
         IN  (IF converted.err # "" THEN <<>> ELSE <<converted.entry>>)
             \o GenerateCompileCommands(opts, Tail(records))

\* strings.ReplaceAll(s, old, new); an empty old matches before every byte
\* and at the end.
RECURSIVE ReplaceAllFrom(_, _, _, _)
ReplaceAllFrom(s, i, old, new) ==
    IF i > Len(s) THEN <<>>
    ELSE IF HasPrefixAt(s, i, old)
         THEN new \o ReplaceAllFrom(s, i + Len(old), old, new)
         ELSE <<s[i]>> \o ReplaceAllFrom(s, i + 1, old, new)

RECURSIVE Interleave(_, _)
Interleave(s, new) ==
    IF s = <<>> THEN new ELSE new \o <<Head(s)>> \o Interleave(Tail(s), new)

ReplaceAll(s, old, new) ==
    IF old = <<>> THEN Interleave(s, new) ELSE ReplaceAllFrom(s, 1, old, new)

getRelativePath(path, baseDir) ==
    IF ~IsAbs(path) THEN path
    ELSE pathOr(Rel(baseDir, path), path)

convertToRelativePaths(entry, baseDir0) ==
    LET baseDir == IF baseDir0 = <<>> THEN entry.Directory ELSE baseDir0
        directory == getRelativePath(entry.Directory, baseDir)
        file      == getRelativePath(entry.File, baseDir)
        output    == getRelativePath(entry.Output, baseDir)
        \* the second assignment to Command starts from entry.Command again
        command   == ReplaceAll(entry.Command, entry.Output, output)
    IN  CompilationEntry(directory, command, entry.Arguments, file, output)

\* One iteration of the loop of GenerateCompilationDatabase.
compilationEntryOf(opts, entry) ==
    LET compilationEntry ==
            CompilationEntry(entry.WorkingDir,
                             JoinStr(<<entry.Compiler>> \o entry.Args, Str(" ")),
                             <<>>, entry.SourceFile, entry.OutputFile)
    IN  IF opts.UseRelativePaths
        THEN convertToRelativePaths(compilationEntry, opts.BaseDir)
        ELSE compilationEntry

\* The database GenerateCompilationDatabase returns.
RECURSIVE GenerateCompilationDatabase(_, _)
GenerateCompilationDatabase(records, opts) ==
    IF records = <<>> THEN <<>>
    ELSE <<compilationEntryOf(opts, Head(records))>>
         \o GenerateCompilationDatabase(Tail(records), opts)

\* The error ValidateCompileDB returns, "" for nil.  The outcome of os.Stat
\* on the entries' files only feeds the warning count.
RECURSIVE validateFrom(_, _)
validateFrom(compileDB, i) ==
    IF i > Len(compileDB) THEN ""
    ELSE IF compileDB[i].Directory = <<>> THEN "working directory cannot be empty"
    ELSE IF compileDB[i].File = <<>> THEN "source file path cannot be empty"
    ELSE IF Len(compileDB[i].Arguments) = 0 THEN "arguments cannot be empty"
    ELSE validateFrom(compileDB, i + 1)

ValidateCompileDBError(compileDB) ==
    IF Len(compileDB) = 0 THEN "compilation database is empty"
    ELSE validateFrom(compileDB, 1)

\* ------------------------------------------------------------------------
\* The input: make log lines
\* ------------------------------------------------------------------------

\* A command line: its tokens separated by single blanks.
Line(tokens) == JoinStr(tokens, Str(" "))

T(s) == Str(s)

\* Compiler invocations with a source file, as token lists.
Compiles ==
    { <<T("gcc"), T("-c"), T("-Wall"), T("main.c"), T("-o"), T("main.o")>>,
      <<T("gcc"), T("-c"), T("util.c"), T("-o"), T("util.o")>>,
      <<T("g++"), T("-c"), T("a.cpp")>>,
      <<T("gcc"), T("-c"), T("a.c"), T("-o"), T("a.o"), T("-o"), T("b.o")>>,
      <<T("gcc"), T("-S"), T("main.c"), T("-o"), T("main.s")>>,
      <<T("clang"), T("-c"), T("boot.S"), T("-o"), T("boot.o")>>,
      <<T("gcc"), T("-c"), T("x.c"), T("y.c")>>,
      <<T("arm-none-eabi-gcc"), T("-c"), T("m.c"), T("-o")>>,
      <<T("cc"), T("-o"), T("out.o"), T("-c"), T("src/in.cc")>>,
      <<T("clang++"), T("-c"), T("X.CPP"), T("-oX.o")>> }

\* Compiler invocations without a source file.
Links ==
    { <<T("gcc"), T("main.o"), T("util.o"), T("-o"), T("program")>>,
      <<T("gcc"), T("-v")>>,
      <<T("g++"), T("-o"), T("app"), T("a.o")>> }

Invocations == Compiles \cup Links

\* The directories of the cd commands.
CdDirs == {T("src"), T("/abs"), T("../lib"), T("sub/dir")}

CdLine(dir, tokens) == Str("cd ") \o dir \o Str(" && ") \o Line(tokens)

EchoLine(sep, tokens) == Str("echo") \o sep \o Line(tokens)

EnterLine(level, dir) ==
    Str("make") \o level \o Str(": Entering directory '") \o dir \o Str("'")

LeaveLine(level, dir) ==
    Str("make") \o level \o Str(": Leaving directory '") \o dir \o Str("'")

MarkerDirs == {T("/p"), T("/p/sub")}

MarkerLevels == {<<>>, T("[1]")}

EnterLines == {EnterLine(lv, d) : lv \in MarkerLevels, d \in MarkerDirs}

LeaveLines == {LeaveLine(lv, d) : lv \in MarkerLevels, d \in MarkerDirs}

\* Lines that are no command: blank lines, comments, malformed markers,
\* other tools.
InertLines ==
    { <<>>, T("   "), T("# gcc -c main.c"), T("mkdir build"),
      T("make: Entering directory ''"), T("make: Leaving directory /p"),
      T("make -C sub all"), T("ld a.o -o prog") }

\* Command lines with quoting, redirection, substitution, prefixes.
ShellLines ==
    { T("gcc -c main.c -o main.o 2>&1"),
      T("gcc -c main.c >log.txt -o main.o 2>err.txt"),
      T("gcc -DNAME=\"a b\" -c q.c -o q.o"),
      T("gcc -c 'my file.c' -o 'my file.o'"),
      T("gcc -c \"unterminated.c -o u.o"),
      T("gcc -c ") \o <<BackTick>> \o T("echo 'src'") \o <<BackTick>> \o T("/a.c -o a.o"),
      T("gcc -c ") \o <<BackTick>> \o T("pwd") \o <<BackTick>> \o T("/a.c -o a.o"),
      T("gcc -c ") \o <<BackTick>> \o T("pwd /a.c -o a.o"),
      T("ccache gcc -c main.c -o main.o"),
      T("  gcc -c main.c -o main.o\r"),
      T("cd src && ld a.o"),
      T("cd gcc-build && make x.c") }

\* Comments and directory markers whose text holds a compiler command or a
\* directory marker.
CommandInSkippedLines ==
    { T("  # gcc -c main.c -o main.o"),
      T("#gcc -c main.c"),
      T("# make: Entering directory '/p'"),
      T("make: Entering directory '/p' gcc -c main.c"),
      T("make[1]: Leaving directory '/p/sub' && gcc -c main.c -o main.o") }

\* The tokens before the compiler on a line: tools that are given the
\* compiler command.
Prefixes == {<<T("tool1"), T("tool2")>>, <<T("/path/to/check"), T("-p")>>}

\* The white space between the tokens before the compiler.
Gaps == {T(" "), T("\t"), T("   ")}

PrefixedInvocations ==
    { <<T("gcc"), T("-c"), T("main.c"), T("-o"), T("main.o")>>,
      <<T("arm-linux-gnu-gcc"), T("-DTEST=1"), T("-c"), T("file.c")>> }

\* The prefix tokens, each followed by the gap, and then the invocation.
PrefixedLine(prefix, gap, tokens) ==
    JoinStr(prefix, gap) \o gap \o Line(tokens)

PrefixedLines ==
    {PrefixedLine(prefix, gap, inv) :
        prefix \in Prefixes, gap \in Gaps, inv \in PrefixedInvocations}

\* Compiler lines with quotes, backslashes, tabs, runs of blanks, a
\* character outside ASCII, and quotes of one kind inside the other.
QuotedLines ==
    { T("gcc -DMESSAGE=\"Hello World\" -c main.c"),
      T("gcc -DMESSAGE='Hello World' -c main.c"),
      T("gcc -DMESSAGE=\\\"Hello\\\" -c main.c"),
      T("gcc -c my\\ file.c"),
      T("gcc  -c   main.c"),
      T("gcc\t-c\tmain.c"),
      T("gcc -c main.c -o ") \o <<RuneLead, RuneCont>>,
      T("gcc -DMSG=\"it's ok\" -c main.c"),
      T("gcc -DMSG='say \"a b\"' -c main.c") }

\* The backtick expression of a shell command.
Substitution(command) == <<BackTick>> \o command \o <<BackTick>>

\* Compiler lines with backtick expressions.
BacktickLines ==
    { T("gcc -c ") \o Substitution(T("echo 'lib'")) \o T("util.c -o util.o"),
      T("gcc -c ") \o Substitution(T("echo './'")) \o T("main.c -o main.o"),
      T("gcc -c ") \o Substitution(T("echo sub/")) \o T("main.c"),
      T("gcc -c ") \o Substitution(T("echo 'src'")) \o T(" main.c"),
      T("gcc ") \o Substitution(T("pkg-config --cflags x")) \o T(" -c main.c") }

\* Compiler invocations with shell redirections among their tokens.
RedirectedInvocations ==
    { <<T("gcc"), T("main.c"), T("-o"), T("main"), T("2>&1")>>,
      <<T("gcc"), T("-c"), T("file.c"), T("-o"), T("file.o"), T(">output.log")>>,
      <<T("gcc"), T("-Wall"), T("test.c"), T("-o"), T("test"), T(">>build.log")>>,
      <<T("arm-none-eabi-gcc"), T("-c"), T("src.c"), T("-o"), T("obj.o"), T("2>error.log")>>,
      <<T("clang++"), T("hello.cpp"), T("-o"), T("hello"), T("<input.txt")>>,
      <<T("gcc"), T("-c"), T("file.c"), T("-o"), T("file.o"), T(">output.log"), T("2>&1")>>,
      <<T("gcc"), T("test.c"), T("-o"), T("test"), T("3>debug.log")>>,
      <<T("gcc"), T("main.c"), T("-o"), T("main"), T("3>&2")>>,
      <<T("gcc"), T("-c"), T("a.c"), T("2>>err.log"), T("-o"), T("a.o")>>,
      <<T("gcc"), T("-c"), T("a.c"), T("12>>dbg.log"), T("-o"), T("a.o"), T(">&1")>>,
      <<T("gcc"), T("<in.txt"), T("-c"), T("a.c"), T("1>&2"), T("-o"), T("a.o"), T("2>e")>>,
      <<T("gcc"), T("-c"), T("a.c"), T(">&2"), T("-o"), T("a.o")>> }

\* Lines with redirections: those of RedirectedInvocations, one with a blank
\* between the operator and its target, one with a quoted argument.
RedirectionLines ==
    {Line(tokens) : tokens \in RedirectedInvocations}
    \cup { T("gcc -c main.c -o main.o > build.log 2>&1"),
           T("gcc -DCMP=\"a >b\" -c m.c -o m.o 2>&1") }

\* The lines of the line-level specification.
Lines ==
    {Line(inv) : inv \in Invocations}
    \cup {CdLine(d, inv) : d \in CdDirs, inv \in Invocations}
    \cup {EchoLine(sep, inv) : sep \in {T(" "), T("\t")}, inv \in Invocations}
    \cup EnterLines \cup LeaveLines \cup InertLines \cup ShellLines
    \cup CommandInSkippedLines \cup PrefixedLines \cup QuotedLines
    \cup BacktickLines \cup RedirectionLines

\* The lines of the logs that the pipeline reads.
LogLines ==
    { EnterLine(<<>>, T("/p")), EnterLine(T("[1]"), T("/p/sub")),
      LeaveLine(<<>>, T("/p")),
      Line(<<T("gcc"), T("-c"), T("-Wall"), T("main.c"), T("-o"), T("main.o")>>),
      CdLine(T("src"), <<T("gcc"), T("-c"), T("util.c"), T("-o"), T("util.o")>>),
      EchoLine(T(" "), <<T("gcc"), T("-c"), T("main.c")>>) }

\* The base directories a caller supplies; empty for none.
BaseDirs == {<<>>, T("/b")}

\* The longest log, in lines.
MaxLines == 3

\* bufio.MaxScanTokenSize: a Scanner made by bufio.NewScanner gives up on a
\* line of this many bytes or more.
MaxScanTokenSize == 65536

\* ------------------------------------------------------------------------
\* The program state
\* ------------------------------------------------------------------------

VARIABLES
    variant,           \* which ExecuteGeneration runs: "generator" is
                       \* cmd/execute.go (Parser and Generator methods),
                       \* "database" the one built on parser.ParseMakeLog and
                       \* generator.GenerateCompilationDatabase
    options,           \* types.ParseOptions of the run
    pc,                \* where the run is
    dirStack,          \* Parser.dirStack
    directoryHistory,  \* Parser.directoryHistory
    entries,           \* the records ParseMakeLog has collected
    trace,             \* observation: for every line scanned, the line, the
                       \* directory stack when it was read, the record made
    err,               \* the error of the run, "" for nil
    readFailed,        \* observation: the input stream reported an I/O error
    compileDB,         \* the compilation database
    missingFiles,      \* source files found missing on disk
    outFile,           \* the output file: [state |-> "absent"], "old" or
                       \* "truncated", or [db |-> the database written]
    cmd,               \* the make subprocess of PrepareReader: its state
                       \* ("none", "running", "exited", "waited") and the
                       \* output it has yet to write
    stdout             \* the lines in the pipe of cmd.StdoutPipe()

vars == <<variant, options, pc, dirStack, directoryHistory, entries, trace,
          err, readFailed, compileDB, missingFiles, outFile, cmd, stdout>>

\* No make command: the input is a file or the standard input.
NoCmd == [state |-> "none", output |-> <<>>]

ParseOptions == [BaseDir : BaseDirs, UseRelativePaths : BOOLEAN]

\* The options of the Parser: parser.ParseMakeLog(reader, verbose) builds
\* them from the verbosity alone.
ParserBaseDir ==
    IF variant = "generator" THEN options.BaseDir ELSE <<>>

\* NewParser has run.
Init ==
    /\ variant \in {"generator", "database"}
    /\ options \in ParseOptions
    /\ pc = "new"
    /\ dirStack = <<>>
    /\ directoryHistory = <<>>
    /\ entries = <<>>
    /\ trace = <<>>
    /\ err = ""
    /\ readFailed = FALSE
    /\ compileDB = <<>>
    /\ missingFiles = 0
    /\ outFile \in {[state |-> "absent"], [state |-> "old"]}
    /\ cmd = NoCmd
    /\ stdout = <<>>

\* Parser.ParseMakeLog up to the loop: the base directory is pushed.
ParseMakeLogStart ==
    /\ pc = "new"
    /\ pc' = "scan"
    /\ entries' = <<>>
    /\ IF ParserBaseDir # <<>>
       THEN dirStack' = Append(dirStack, ParserBaseDir)
       ELSE UNCHANGED dirStack
    /\ UNCHANGED <<variant, options, cmd, stdout,
                   directoryHistory, trace, err,
                   readFailed, compileDB, missingFiles, outFile>>

\* A handleDirectoryChange that pops only when the marker names the
\* directory on top of the stack.
handleDirectoryChangeMatching(stack, line) ==
    IF makeDirEnterRegex(line).ok THEN Append(stack, makeDirEnterRegex(line).dir)
    ELSE IF /\ makeDirLeaveRegex(line).ok
            /\ Len(stack) > 0
            /\ stack[Len(stack)] = makeDirLeaveRegex(line).dir
         THEN SubSeq(stack, 1, Len(stack) - 1)
    ELSE stack

\* A handleDirectoryChange that empties the stack at a Leaving marker.
handleDirectoryChangeClearing(stack, line) ==
    IF makeDirEnterRegex(line).ok THEN Append(stack, makeDirEnterRegex(line).dir)
    ELSE IF makeDirLeaveRegex(line).ok THEN <<>>
    ELSE stack

\* The directory stack after handleDirectoryChange(line).
handleDirectoryChange(stack, line) ==
    IF makeDirEnterRegex(line).ok THEN Append(stack, makeDirEnterRegex(line).dir)
    ELSE IF makeDirLeaveRegex(line).ok /\ Len(stack) > 0
         THEN SubSeq(stack, 1, Len(stack) - 1)
    ELSE stack

\* Whether handleDirectoryChange(line) returns true.
handledDirectoryChange(line) ==
    makeDirEnterRegex(line).ok \/ makeDirLeaveRegex(line).ok

\* The directories that can be on top of the directory stack.
StackDirs == BaseDirs \cup MarkerDirs

\* A loop body that looks for a compiler command in every line, blank lines,
\* comments and directory markers included.
ScannedLineCompilerFirst(text) ==
    LET line   == TrimSpace(text)
        skip   == line = <<>> \/ HasPrefix(line, Str("#"))
        marker == ~skip /\ handledDirectoryChange(line)
    IN  [line    |-> line,
         skip    |-> skip,
         marker  |-> marker,
         entered |-> marker /\ makeDirEnterRegex(line).ok,
         entry   |-> [top \in StackDirs |-> parseCompileCommand(<<top>>, line)]]

\* One iteration of the loop of ParseMakeLog on the line text, up to the
\* changes of state: the trimmed line, whether it is skipped as blank or as
\* a comment, whether handleDirectoryChange takes it, and the result of
\* parseCompileCommand for each directory on top of the stack
\* (parseCompileCommand reads the stack through its top element only).
ScannedLine(text) ==
    LET line   == TrimSpace(text)
        skip   == line = <<>> \/ HasPrefix(line, Str("#"))
        marker == ~skip /\ handledDirectoryChange(line)
    IN  [line    |-> line,
         skip    |-> skip,
         marker  |-> marker,
         entered |-> marker /\ makeDirEnterRegex(line).ok,
         entry   |-> [top \in StackDirs |->
                         IF skip \/ marker THEN NoEntry
                         ELSE parseCompileCommand(<<top>>, line)]]

\* ScannedLine tabulated over the lines of the model.
Scanned == [text \in Lines \cup LogLines |-> ScannedLine(text)]

\* One iteration of the loop of ParseMakeLog on the line text, scanned being
\* ScannedLine(text) and entry the record of the line, if any.
LoopBodyOf(text, scanned, entry) ==
    /\ dirStack' = IF scanned.marker
                   THEN handleDirectoryChange(dirStack, scanned.line)
                   ELSE dirStack
    /\ directoryHistory' =
          IF scanned.entered
          THEN Append(directoryHistory, makeDirEnterRegex(scanned.line).dir)
          ELSE directoryHistory
    /\ entries' = IF entry.nil THEN entries ELSE Append(entries, entry)
    /\ trace' = Append(trace, [line |-> text, stack |-> dirStack, entry |-> entry])
    /\ UNCHANGED <<variant, options, pc, err, readFailed, compileDB,
                   missingFiles, outFile>>

\* One iteration of the loop of ParseMakeLog on the line text.
LoopBody(text) ==
    LoopBodyOf(text, Scanned[text], Scanned[text].entry[Top(dirStack)])

\* scanner.Scan() delivers a line of the log.
ScanLine ==
    /\ pc = "scan"
    /\ Len(trace) < MaxLines
    /\ \E text \in LogLines :
          /\ Len(text) < MaxScanTokenSize
          /\ LoopBody(text)
    /\ UNCHANGED <<cmd, stdout>>

\* The next line has MaxScanTokenSize bytes or more: scanner.Scan() returns
\* false and scanner.Err() is bufio.ErrTooLong.
ScanTooLong ==
    /\ pc = "scan"
    /\ \E text \in LogLines, blanks \in {MaxScanTokenSize} :
          Len(text) + blanks >= MaxScanTokenSize
    /\ pc' = "failed"
    /\ entries' = <<>>
    /\ err' = "failed to read input"
    /\ UNCHANGED <<variant, options, cmd, stdout,
                   dirStack, directoryHistory, trace,
                   readFailed, compileDB, missingFiles, outFile>>

\* The reader fails: scanner.Scan() returns false and scanner.Err() is the
\* reader's error.
ReadError ==
    /\ pc = "scan"
    /\ pc' = "failed"
    /\ entries' = <<>>
    /\ err' = "failed to read input"
    /\ readFailed' = TRUE
    /\ UNCHANGED <<variant, options, cmd, stdout,
                   dirStack, directoryHistory, trace,
                   compileDB, missingFiles, outFile>>

\* End of input: ParseMakeLog returns the records.
EndOfInput ==
    /\ pc = "scan"
    /\ pc' = "parsed"
    /\ UNCHANGED <<variant, options, cmd, stdout,
                   dirStack, directoryHistory, entries, trace,
                   err, readFailed, compileDB, missingFiles, outFile>>

\* execute.go: g.GenerateCompileCommands(entries)
GenerateCommands ==
    /\ pc = "parsed"
    /\ variant = "generator"
    /\ compileDB' = GenerateCompileCommands(options, entries)
    /\ pc' = "generated"
    /\ UNCHANGED <<variant, options, cmd, stdout,
                   dirStack, directoryHistory, entries, trace,
                   err, readFailed, missingFiles, outFile>>

\* execute.go: g.ValidateCompileDB(compileDB); os.Stat finds any of the
\* files of the entries missing.
ValidateCompileDB ==
    /\ pc = "generated"
    /\ variant = "generator"
    /\ err' = ValidateCompileDBError(compileDB)
    /\ pc' = IF err' = "" THEN "validated" ELSE "failed"
    /\ \E missing \in SUBSET (1..Len(compileDB)) :
          missingFiles' = IF err' = "" THEN Cardinality(missing) ELSE 0
    /\ UNCHANGED <<variant, options, cmd, stdout,
                   dirStack, directoryHistory, entries, trace,
                   readFailed, compileDB, outFile>>

\* execute.go: g.WriteToFile(compileDB, options.OutputFile)
WriteToFile ==
    /\ pc = "validated"
    /\ variant = "generator"
    /\ \/ /\ pc' = "done"
          /\ outFile' = [db |-> compileDB]
          /\ UNCHANGED err
       \/ /\ pc' = "failed"
          /\ err' = "failed to write file"
          /\ outFile' \in {outFile, [state |-> "truncated"]}
    /\ UNCHANGED <<variant, options, cmd, stdout,
                   dirStack, directoryHistory, entries, trace,
                   readFailed, compileDB, missingFiles>>

\* generator.GenerateCompilationDatabase(entries, options); os.Stat finds
\* any of the files of the entries missing.
GenerateDatabase ==
    /\ pc = "parsed"
    /\ variant = "database"
    /\ compileDB' = GenerateCompilationDatabase(entries, options)
    /\ \E missing \in SUBSET (1..Len(entries)) : missingFiles' = Cardinality(missing)
    /\ pc' = "generated"
    /\ UNCHANGED <<variant, options, cmd, stdout,
                   dirStack, directoryHistory, entries, trace,
                   err, readFailed, outFile>>

\* generator.WriteCompilationDatabase(compilationDB, options.OutputFile):
\* os.Create makes or truncates the file, then the document is written.
WriteCompilationDatabase ==
    /\ pc = "generated"
    /\ variant = "database"
    /\ \/ /\ pc' = "done"
          /\ outFile' = [db |-> compileDB]
          /\ UNCHANGED err
       \/ /\ pc' = "failed"
          /\ err' = "failed to write file"
          /\ outFile' \in {outFile, [state |-> "truncated"]}
    /\ UNCHANGED <<variant, options, cmd, stdout,
                   dirStack, directoryHistory, entries, trace,
                   readFailed, compileDB, missingFiles>>

Next ==
    \/ ParseMakeLogStart
    \/ ScanLine
    \/ ScanTooLong
    \/ ReadError
    \/ EndOfInput
    \/ GenerateCommands
    \/ ValidateCompileDB
    \/ WriteToFile
    \/ GenerateDatabase
    \/ WriteCompilationDatabase

Spec == Init /\ [][Next]_vars


\* ------------------------------------------------------------------------
\* The loop of ParseMakeLog, one line at a time
\* ------------------------------------------------------------------------

\* The lines scanned from the start of the line-level specification.
MaxLineScans == 1

\* The directories entered and not left before the first of these lines.
EnteredDirs == {<<>>, <<T("/p")>>, <<T("/p"), T("/p/sub")>>}

\* ParseMakeLog is in its loop: the base directory and the directories of
\* earlier markers are on the stack.
InitLine ==
    /\ variant = "generator"
    /\ options \in [BaseDir : BaseDirs, UseRelativePaths : {FALSE}]
    /\ pc = "scan"
    /\ \E entered \in EnteredDirs :
          /\ dirStack = (IF options.BaseDir # <<>> THEN <<options.BaseDir>>
                         ELSE <<>>) \o entered
          /\ directoryHistory = entered
    /\ entries = <<>>
    /\ trace = <<>>
    /\ err = ""
    /\ readFailed = FALSE
    /\ compileDB = <<>>
    /\ missingFiles = 0
    /\ outFile = [state |-> "absent"]
    /\ cmd = NoCmd
    /\ stdout = <<>>

\* scanner.Scan() delivers any line of the vocabulary.
ScanAnyLine ==
    /\ pc = "scan"
    /\ Len(trace) < MaxLineScans
    /\ \E text \in Lines :
          /\ Len(text) < MaxScanTokenSize
          /\ LoopBody(text)
    /\ UNCHANGED <<cmd, stdout>>

NextLine ==
    \/ ScanAnyLine
    \/ EndOfInput

SpecLine == InitLine /\ [][NextLine]_vars


\* ------------------------------------------------------------------------
\* Generator.ValidateCompileDB on a database of any shape
\* ------------------------------------------------------------------------

\* The longest database handed to ValidateCompileDB, in entries.
MaxEntries == 2

\* Entries with each of the fields that ValidateCompileDB reads, and the
\* command, empty or not.
SampleEntries ==
    { CompilationEntry(directory, command, arguments, file, <<>>) :
        directory \in {<<>>, T("/project")},
        command   \in {<<>>, T("gcc -c main.c")},
        arguments \in {<<>>, <<T("gcc"), T("-c"), T("main.c")>>},
        file      \in {<<>>, T("main.c")} }

SampleDatabases ==
    UNION {[1..n -> SampleEntries] : n \in 0..MaxEntries}

\* A caller has a database and is about to call ValidateCompileDB on it.
InitValidate ==
    /\ variant = "generator"
    /\ options = [BaseDir |-> <<>>, UseRelativePaths |-> FALSE]
    /\ pc = "generated"
    /\ compileDB \in SampleDatabases
    /\ dirStack = <<>>
    /\ directoryHistory = <<>>
    /\ entries = <<>>
    /\ trace = <<>>
    /\ err = ""
    /\ readFailed = FALSE
    /\ missingFiles = 0
    /\ outFile = [state |-> "absent"]
    /\ cmd = NoCmd
    /\ stdout = <<>>

NextValidate ==
    \/ ValidateCompileDB
    \/ WriteToFile

SpecValidate == InitValidate /\ [][NextValidate]_vars

\* ------------------------------------------------------------------------
\* The database builders on records of any shape
\* ------------------------------------------------------------------------

\* The longest list of records handed to a builder.
MaxRecords == 1

\* The base directories of the runs of the builders: none, an absolute one,
\* and a relative one (the directory of a relative output file name).
ConvertBaseDirs == {<<>>, T("/project"), T("out")}

\* The record that parseCompileCommand makes in workingDir of
\* gcc -c <sourceFile>, with -o <outputFile> unless outputFile is empty.
RecordOf(workingDir, sourceFile, outputFile) ==
    MakeLogEntry(workingDir, T("gcc"),
                 <<T("gcc"), T("-c"), sourceFile>>
                    \o (IF outputFile = <<>> THEN <<>> ELSE <<T("-o"), outputFile>>),
                 sourceFile, outputFile)

SampleRecords ==
    { RecordOf(workingDir, sourceFile, outputFile) :
        workingDir \in {<<>>, T("/project"), T("/project/build"), T("/other"),
                        T("build")},
        sourceFile \in {T("main.c"), T("/project/build/main.c"), T("/other/x.c"),
                        T("../x.c")},
        outputFile \in {<<>>, T("main.o"), T("/project/build/main.o")} }

SampleRecordLists ==
    UNION {[1..n -> SampleRecords] : n \in 1..MaxRecords}

\* ParseMakeLog has returned a list of records.
InitConvert ==
    /\ variant \in {"generator", "database"}
    /\ options \in [BaseDir : ConvertBaseDirs, UseRelativePaths : BOOLEAN]
    /\ pc = "parsed"
    /\ entries \in SampleRecordLists
    /\ dirStack = <<>>
    /\ directoryHistory = <<>>
    /\ trace = <<>>
    /\ err = ""
    /\ readFailed = FALSE
    /\ compileDB = <<>>
    /\ missingFiles = 0
    /\ outFile = [state |-> "absent"]
    /\ cmd = NoCmd
    /\ stdout = <<>>

NextConvert ==
    \/ GenerateCommands
    \/ GenerateDatabase

SpecConvert == InitConvert /\ [][NextConvert]_vars

\* ------------------------------------------------------------------------
\* A second call of ParseMakeLog on the same Parser
\* ------------------------------------------------------------------------

\* A Parser made by NewParser has run ParseMakeLog once, on a log whose
\* Entering markers had no Leaving markers after them: the base directory
\* and the directories entered are still on p.dirStack, which no code
\* resets.  ParseMakeLog is about to be called on it again.
InitReuse ==
    /\ variant = "generator"
    /\ options \in [BaseDir : BaseDirs, UseRelativePaths : {FALSE}]
    /\ pc = "new"
    /\ \E entered \in EnteredDirs :
          /\ dirStack = (IF options.BaseDir # <<>> THEN <<options.BaseDir>>
                         ELSE <<>>) \o entered
          /\ directoryHistory = entered
    /\ entries = <<>>
    /\ trace = <<>>
    /\ err = ""
    /\ readFailed = FALSE
    /\ compileDB = <<>>
    /\ missingFiles = 0
    /\ outFile = [state |-> "absent"]
    /\ cmd = NoCmd
    /\ stdout = <<>>

NextReuse ==
    \/ ParseMakeLogStart
    \/ ScanLine
    \/ EndOfInput

SpecReuse == InitReuse /\ [][NextReuse]_vars

\* The loop of ParseMakeLog as a function: the records collected from the
\* lines, starting with the directory stack stack and the records records.
RECURSIVE parseLines(_, _, _)
parseLines(stack, lines, records) ==
    IF lines = <<>> THEN records
    ELSE parseLines(IF Scanned[Head(lines)].marker
                    THEN handleDirectoryChange(stack, Scanned[Head(lines)].line)
                    ELSE stack,
                    Tail(lines),
                    IF Scanned[Head(lines)].entry[Top(stack)].nil THEN records
                    ELSE Append(records, Scanned[Head(lines)].entry[Top(stack)]))

\* The records that ParseMakeLog returns for the lines when it is called on
\* a Parser that NewParser has just made with the base directory baseDir.
ParseMakeLogFresh(baseDir, lines) ==
    parseLines(IF baseDir # <<>> THEN <<baseDir>> ELSE <<>>, lines, <<>>)

\* ------------------------------------------------------------------------
\* The run with a make command as the input source
\* ------------------------------------------------------------------------

\* The lines the pipe of the subprocess holds when it is full.  (The pipe
\* of the operating system holds a fixed number of bytes.)
PipeCapacity == 1

\* The lines of the longest output of make.
MaxOutput == 3

\* The lines make writes, each with the blanks that follow its text.
MakeLines ==
    [text : {EnterLine(<<>>, T("/p")),
             Line(<<T("gcc"), T("-c"), T("-Wall"), T("main.c"), T("-o"), T("main.o")>>)},
     blanks : {0, MaxScanTokenSize}]

\* The outputs of make -Bnkw: finite, since make prints and runs nothing.
MakeOutputs == UNION {[1..n -> MakeLines] : n \in 1..MaxOutput}

\* PrepareReader has started the subprocess and returned its pipe as the
\* reader; the ExecuteGeneration built on parser.ParseMakeLog and
\* generator.GenerateCompilationDatabase is about to parse.
InitMake ==
    /\ variant = "database"
    /\ options = [BaseDir |-> <<>>, UseRelativePaths |-> FALSE]
    /\ pc = "new"
    /\ dirStack = <<>>
    /\ directoryHistory = <<>>
    /\ entries = <<>>
    /\ trace = <<>>
    /\ err = ""
    /\ readFailed = FALSE
    /\ compileDB = <<>>
    /\ missingFiles = 0
    /\ outFile = [state |-> "absent"]
    /\ \E output \in MakeOutputs : cmd = [state |-> "running", output |-> output]
    /\ stdout = <<>>

\* The subprocess writes its next line to the pipe; the write blocks while
\* the pipe is full.  The read end stays open as long as the subprocess
\* runs: only cmd.Wait() closes it, after the subprocess has exited.
MakeWrites ==
    /\ cmd.state = "running"
    /\ cmd.output # <<>>
    /\ Len(stdout) < PipeCapacity
    /\ stdout' = Append(stdout, Head(cmd.output))
    /\ cmd' = [cmd EXCEPT !.output = Tail(@)]
    /\ UNCHANGED <<variant, options, pc, dirStack, directoryHistory, entries,
                   trace, err, readFailed, compileDB, missingFiles, outFile>>

\* The subprocess has written all of its output and exits; the write end of
\* the pipe is closed.
MakeExits ==
    /\ cmd.state = "running"
    /\ cmd.output = <<>>
    /\ cmd' = [cmd EXCEPT !.state = "exited"]
    /\ UNCHANGED <<variant, options, pc, dirStack, directoryHistory, entries,
                   trace, err, readFailed, compileDB, missingFiles, outFile,
                   stdout>>

\* scanner.Scan() delivers the next line of the pipe.
ScanPipeLine ==
    /\ pc = "scan"
    /\ stdout # <<>>
    /\ Len(Head(stdout).text) + Head(stdout).blanks < MaxScanTokenSize
    /\ LoopBody(Head(stdout).text)
    /\ stdout' = Tail(stdout)
    /\ UNCHANGED cmd

\* The next line of the pipe has MaxScanTokenSize bytes or more:
\* scanner.Scan() returns false, scanner.Err() is bufio.ErrTooLong and
\* ParseMakeLog returns the error without reading any further.
ScanPipeTooLong ==
    /\ pc = "scan"
    /\ stdout # <<>>
    /\ Len(Head(stdout).text) + Head(stdout).blanks >= MaxScanTokenSize
    /\ stdout' = Tail(stdout)
    /\ pc' = "failed"
    /\ entries' = <<>>
    /\ err' = "failed to read input"
    /\ UNCHANGED <<variant, options, dirStack, directoryHistory, trace,
                   readFailed, compileDB, missingFiles, outFile, cmd>>

\* The pipe is empty and its write end closed: scanner.Scan() returns false
\* at the end of the input, and ParseMakeLog returns the records.
PipeEndOfInput ==
    /\ pc = "scan"
    /\ stdout = <<>>
    /\ cmd.state = "exited"
    /\ pc' = "parsed"
    /\ UNCHANGED <<variant, options, dirStack, directoryHistory, entries, trace,
                   err, readFailed, compileDB, missingFiles, outFile, cmd,
                   stdout>>

\* ExecuteGeneration has returned and the deferred cleanup runs: cmd.Wait()
\* returns once the subprocess has exited, and closes the pipe.
Cleanup ==
    /\ pc \in {"done", "failed"}
    /\ cmd.state = "exited"
    /\ cmd' = [cmd EXCEPT !.state = "waited"]
    /\ stdout' = <<>>
    /\ UNCHANGED <<variant, options, pc, dirStack, directoryHistory, entries,
                   trace, err, readFailed, compileDB, missingFiles, outFile>>

NextMake ==
    \/ MakeWrites
    \/ MakeExits
    \/ ParseMakeLogStart
    \/ ScanPipeLine
    \/ ScanPipeTooLong
    \/ PipeEndOfInput
    \/ GenerateDatabase
    \/ WriteCompilationDatabase
    \/ Cleanup

\* The subprocess and the program each take their next step when they can:
\* the operating system schedules both.  Every step moves the program on,
\* or the subprocess, or a line through the pipe.
SpecMake ==
    InitMake /\ [][NextMake]_vars /\ WF_<<pc, cmd, stdout>>(NextMake)


\* ------------------------------------------------------------------------
\* Properties
\* ------------------------------------------------------------------------

\* The lines read so far.
LinesRead == [i \in 1..Len(trace) |-> trace[i].line]

\* The directory stack after the i-th line read.
StackAfter(i) == IF i < Len(trace) THEN trace[i + 1].stack ELSE dirStack

\* A line that starts with cd <dir> &&.
HasLeadingCd(text) == cdPatternMatch(TrimSpace(text)).ok

MainLine == Line(<<T("gcc"), T("-c"), T("-Wall"), T("main.c"), T("-o"), T("main.o")>>)

EnterMainLeave ==
    <<EnterLine(<<>>, T("/p")), MainLine, LeaveLine(<<>>, T("/p"))>>

\* C1: every record made from a line without a leading cd <dir> && has as
\* working directory the top of the directory stack as it was when the line
\* was read, the empty string when the stack was empty; and the log
\* Enter '/p', gcc -c -Wall main.c -o main.o, Leave '/p' yields exactly one
\* record, with working directory /p, compiler gcc, source main.c and output
\* main.o.
C1_DirectWorkingDir ==
    /\ \A i \in 1..Len(trace) :
          (~trace[i].entry.nil /\ ~HasLeadingCd(trace[i].line))
             => trace[i].entry.WorkingDir =
                   (IF trace[i].stack = <<>> THEN <<>>
                    ELSE trace[i].stack[Len(trace[i].stack)])
    /\ (pc = "parsed" /\ LinesRead = EnterMainLeave)
          => /\ Len(entries) = 1
             /\ entries[1].WorkingDir = T("/p")
             /\ entries[1].Compiler = T("gcc")
             /\ entries[1].SourceFile = T("main.c")
             /\ entries[1].OutputFile = T("main.o")

\* The scenario of C1 has been parsed.
C1_Witness ==
    /\ pc = "parsed"
    /\ LinesRead = EnterMainLeave
    /\ Len(entries) = 1
    /\ trace[2].stack = <<T("/p")>>


\* The tokens of the lines that are a bare compiler invocation.
DirectTokens ==
    [text \in {Line(inv) : inv \in Invocations} |->
        CHOOSE inv \in Invocations : Line(inv) = text]

\* The directory and the tokens of the lines cd <dir> && <invocation>.
CdTokens ==
    [text \in {CdLine(d, inv) : d \in CdDirs, inv \in Invocations} |->
        CHOOSE c \in [dir : CdDirs, tokens : Invocations] :
            CdLine(c.dir, c.tokens) = text]

\* The tokens of the invocation of a line of either form.
InvocationTokens ==
    [text \in DOMAIN DirectTokens \cup DOMAIN CdTokens |->
        IF text \in DOMAIN DirectTokens THEN DirectTokens[text]
        ELSE CdTokens[text].tokens]

\* The extensions of source files, in lower case.
SourceExtensions ==
    {T(".c"), T(".cpp"), T(".cc"), T(".cxx"), T(".c++"), T(".s"), T(".asm")}

\* The token ends with one of the extensions, whatever the case of its letters.
HasSourceExtension(token) ==
    \E e \in SourceExtensions : HasSuffix(ToLower(token), e)

\* C2: the source file of a record is the last token of its invocation that
\* has a source extension, compared without regard to case, and is never
\* empty; a compiler invocation none of whose tokens has such an extension
\* produces no record, and any other invocation produces one.
C2_LastSourceToken ==
    \A i \in 1..Len(trace) :
        LET e    == trace[i].entry
            text == trace[i].line
        IN  /\ ~e.nil =>
                  /\ e.SourceFile # <<>>
                  /\ \E j \in 1..Len(e.Args) :
                        /\ e.Args[j] = e.SourceFile
                        /\ HasSourceExtension(e.Args[j])
                        /\ \A k \in (j + 1)..Len(e.Args) :
                              ~HasSourceExtension(e.Args[k])
            /\ text \in DOMAIN InvocationTokens =>
                  LET tokens == InvocationTokens[text]
                  IN  /\ e.nil <=> \A j \in 1..Len(tokens) :
                                      ~HasSourceExtension(tokens[j])
                      /\ ~e.nil => e.Args = tokens

\* A line with two source files has given a record with the second.
C2_Witness ==
    /\ pc = "parsed"
    /\ Len(trace) = 1
    /\ trace[1].line = T("gcc -c x.c y.c")
    /\ ~trace[1].entry.nil
    /\ trace[1].entry.SourceFile = T("y.c")
    /\ entries = <<trace[1].entry>>

\* C3: a line whose first token, once leading whitespace is trimmed, is echo
\* produces no record.
C3_EchoNeverRecord ==
    \A i \in 1..Len(trace) :
        LET tokens == Fields(trace[i].line)
        IN  (Len(tokens) > 0 /\ tokens[1] = T("echo")) => trace[i].entry.nil


\* The positions of the lines read that are Entering markers.
EnterPositions == {i \in 1..Len(trace) : trace[i].line \in EnterLines}

\* The positions of the lines read that are Leaving markers.
LeavePositions == {i \in 1..Len(trace) : trace[i].line \in LeaveLines}

\* The pushes so far: the base directory, if any, and one per Entering marker.
PushCount ==
    (IF pc # "new" /\ ParserBaseDir # <<>> THEN 1 ELSE 0)
    + Cardinality(EnterPositions)

\* The Leaving markers so far that found the stack non-empty.
EffectivePopCount ==
    Cardinality({i \in LeavePositions : trace[i].stack # <<>>})

\* The step reads a Leaving marker.
ReadsLeaveMarker ==
    /\ pc = "scan"
    /\ Len(trace') = Len(trace) + 1
    /\ trace'[Len(trace')].line \in LeaveLines

\* C4: a Leaving marker removes exactly the top of a non-empty directory
\* stack, whatever path it names, and leaves an empty stack empty; the depth
\* of the stack is the number of pushes minus the number of Leaving markers
\* that found it non-empty, hence never negative; and reading a Leaving
\* marker raises no error and does not stop the scan.
C4_LeavePopsTop ==
    /\ [](/\ \A i \in LeavePositions :
               StackAfter(i) =
                  (IF trace[i].stack = <<>> THEN <<>>
                   ELSE SubSeq(trace[i].stack, 1, Len(trace[i].stack) - 1))
          /\ Len(dirStack) = PushCount - EffectivePopCount
          /\ PushCount - EffectivePopCount >= 0)
    /\ [][ReadsLeaveMarker => (pc' = "scan" /\ err' = "" /\ entries' = entries)]_vars

\* A Leaving marker has met the empty stack, and another has popped a
\* directory that is not the one it names; the scan goes on.
C4_Witness ==
    /\ pc = "scan"
    /\ err = ""
    /\ LinesRead = <<LeaveLine(<<>>, T("/p")), EnterLine(T("[1]"), T("/p/sub")),
                     LeaveLine(<<>>, T("/p"))>>
    /\ trace[1].stack = <<>>
    /\ trace[3].stack = <<T("/p/sub")>>
    /\ dirStack = <<>>


\* What cd <dir> leads to from the directory top: the triples
\* <<top, dir, directory>>, for the directories of the model.
CdFrom ==
    { <<T(""), T("src"), T("src")>>,
      <<T(""), T("/abs"), T("/abs")>>,
      <<T(""), T("../lib"), T("../lib")>>,
      <<T(""), T("sub/dir"), T("sub/dir")>>,
      <<T("/b"), T("src"), T("/b/src")>>,
      <<T("/b"), T("/abs"), T("/abs")>>,
      <<T("/b"), T("../lib"), T("/lib")>>,
      <<T("/b"), T("sub/dir"), T("/b/sub/dir")>>,
      <<T("/p"), T("src"), T("/p/src")>>,
      <<T("/p"), T("/abs"), T("/abs")>>,
      <<T("/p"), T("../lib"), T("/lib")>>,
      <<T("/p"), T("sub/dir"), T("/p/sub/dir")>>,
      <<T("/p/sub"), T("src"), T("/p/sub/src")>>,
      <<T("/p/sub"), T("/abs"), T("/abs")>>,
      <<T("/p/sub"), T("../lib"), T("/p/lib")>>,
      <<T("/p/sub"), T("sub/dir"), T("/p/sub/sub/dir")>> }

\* The top of the directory stack when the i-th line was read.
TopAt(i) ==
    IF trace[i].stack = <<>> THEN <<>> ELSE trace[i].stack[Len(trace[i].stack)]

\* The positions of the lines cd <dir> && <invocation with a source file>.
CdCompilePositions ==
    {i \in 1..Len(trace) : /\ trace[i].line \in DOMAIN CdTokens
                           /\ CdTokens[trace[i].line].tokens \in Compiles}

OutputFlags(args) == {j \in 1..(Len(args) - 1) : args[j] = T("-o")}

\* C6, as stated: in a record's arguments, every -o that another token
\* follows has the record's output file as that token, and without any -o
\* the output file is empty.
C6_OutputAfterEachFlag ==
    \A i \in 1..Len(trace) :
        LET e == trace[i].entry
        IN  ~e.nil =>
               /\ \A j \in OutputFlags(e.Args) : e.OutputFile = e.Args[j + 1]
               /\ (\A j \in 1..Len(e.Args) : e.Args[j] # T("-o"))
                     => e.OutputFile = <<>>

\* C6, amended: the output file of a record is the token that follows the
\* last -o with a token after it, and is empty when no -o has a token after
\* it; the arguments are the tokens of the invocation.
C6_OutputAfterLastFlag ==
    \A i \in 1..Len(trace) :
        LET e == trace[i].entry
        IN  ~e.nil =>
               /\ e.OutputFile =
                     (IF OutputFlags(e.Args) = {} THEN <<>>
                      ELSE e.Args[Max(OutputFlags(e.Args)) + 1])
               /\ trace[i].line \in DOMAIN InvocationTokens
                     => e.Args = InvocationTokens[trace[i].line]

\* gcc -c a.c -o a.o -o b.o has given a record with output b.o.
C6_Witness ==
    /\ Len(trace) = 1
    /\ trace[1].line = T("gcc -c a.c -o a.o -o b.o")
    /\ ~trace[1].entry.nil
    /\ trace[1].entry.OutputFile = T("b.o")


\* A database has been built from the records.
DatabaseBuilt ==
    \/ pc \in {"generated", "validated", "done"}
    \/ pc = "failed" /\ err # "failed to read input"

\* The entry that the builder of the run makes of one record.
EntryOf(record) ==
    IF variant = "generator" THEN convertToCompilationEntry(options, record).entry
    ELSE compilationEntryOf(options, record)

\* C7: the database built by Generator.GenerateCompileCommands or by
\* GenerateCompilationDatabase has exactly one entry per record, in the order
\* of the records: entry i is the entry made of record i, with the arguments
\* of record i (as arguments or in the command).
C7_OneEntryPerRecord ==
    DatabaseBuilt =>
        /\ Len(compileDB) = Len(entries)
        /\ \A i \in 1..Len(compileDB) :
              /\ compileDB[i] = EntryOf(entries[i])
              /\ variant = "generator" => compileDB[i].Arguments = entries[i].Args
              /\ variant = "database" =>
                    HasPrefix(compileDB[i].Command, entries[i].Compiler \o T(" "))

\* A database has been built from three records, not all alike, by each of
\* the builders.
C7_Witness ==
    /\ pc = "generated"
    /\ Len(entries) = 3
    /\ entries[1] # entries[2]
    /\ entries[1] = entries[3]
    /\ Len(compileDB) = 3
    /\ compileDB[1] # compileDB[2]

\* C8: once ExecuteGeneration is over, the output file has been written only
\* if parsing and the validation of the database succeeded; when the input
\* yields no record, ExecuteGeneration has returned the error "compilation
\* database is empty" and the output file is as it was, neither created nor
\* overwritten.
C8_NoWriteOfEmptyDatabase ==
    (pc \in {"done", "failed"} /\ err # "failed to read input" /\ entries = <<>>)
        => /\ err = "compilation database is empty"
           /\ outFile \in {[state |-> "absent"], [state |-> "old"]}

\* C10: ParseMakeLog returns an error only when reading from the input
\* stream has failed.
C10_ErrorOnlyOnReadFailure ==
    (pc = "failed" /\ err = "failed to read input") => readFailed


\* The database is empty, or one of its entries has an empty directory, an
\* empty file, or neither a command nor arguments.
LacksRequiredField(db) ==
    \/ Len(db) = 0
    \/ \E i \in 1..Len(db) :
          \/ db[i].Directory = <<>>
          \/ db[i].File = <<>>
          \/ db[i].Command = <<>> /\ db[i].Arguments = <<>>

\* ValidateCompileDB has returned an error.
ValidationFailed == pc = "failed" /\ err # "failed to write file"

\* C9: ValidateCompileDB returns an error if and only if the database is
\* empty or an entry has an empty directory, an empty file, or neither a
\* non-empty command nor a non-empty argument list, however many of the
\* entries' files are missing on disk.
C9_ErrorIffFieldMissing ==
    pc # "generated" => (ValidationFailed <=> LacksRequiredField(compileDB))


\* C11: every entry of a database that a builder has made has a non-empty
\* directory, and the entry of a record with an empty working directory has
\* the directory ".".
C11_DirectoryNeverEmpty ==
    (DatabaseBuilt /\ Len(compileDB) = Len(entries)) =>
        \A i \in 1..Len(compileDB) :
            /\ compileDB[i].Directory # <<>>
            /\ entries[i].WorkingDir = <<>> => compileDB[i].Directory = T(".")


\* The path that absolute-path mode gives a file token of a record in the
\* working directory workingDir: the token itself when it is absolute, else
\* the token joined onto the working directory.
JoinedOnto(workingDir, token) ==
    IF IsAbs(token) THEN token ELSE Join(<<workingDir, token>>)

\* C12: in absolute-path mode, the file of every entry is the source file of
\* its record when that is an absolute path, and else the source file joined
\* onto the working directory of the record; the output of the entry is made
\* by the same rule from an output file that is not empty.
C12_AbsoluteModeJoins ==
    (DatabaseBuilt /\ ~options.UseRelativePaths /\ Len(compileDB) = Len(entries)) =>
        \A i \in 1..Len(compileDB) :
            /\ compileDB[i].File =
                  JoinedOnto(entries[i].WorkingDir, entries[i].SourceFile)
            /\ entries[i].OutputFile # <<>> =>
                  compileDB[i].Output =
                     JoinedOnto(entries[i].WorkingDir, entries[i].OutputFile)


\* The record is a compilation of main.c into main.o in the directory build
\* under the base directory of the run, the files named from that directory
\* or in full.
InBuildUnderBase(record) ==
    /\ options.BaseDir # <<>>
    /\ record.WorkingDir = Join(<<options.BaseDir, T("build")>>)
    /\ JoinedOnto(record.WorkingDir, record.SourceFile)
          = Join(<<options.BaseDir, T("build/main.c")>>)
    /\ JoinedOnto(record.WorkingDir, record.OutputFile)
          = Join(<<options.BaseDir, T("build/main.o")>>)

\* C13: in relative-path mode with the base directory B, the entry of a
\* record whose working directory is B/build has the directory build, the
\* file build/main.c and the output build/main.o, and the entry of a record
\* whose working directory is B has the directory ".".
C13_RelativeToBase ==
    (DatabaseBuilt /\ options.UseRelativePaths /\ Len(compileDB) = Len(entries)) =>
        \A i \in 1..Len(compileDB) :
            /\ InBuildUnderBase(entries[i]) =>
                  /\ compileDB[i].Directory = T("build")
                  /\ compileDB[i].File = T("build/main.c")
                  /\ compileDB[i].Output = T("build/main.o")
            /\ (options.BaseDir # <<>> /\ entries[i].WorkingDir = options.BaseDir)
                  => compileDB[i].Directory = T(".")


\* The directory, file and output of the entry of record i as they are
\* before they are made relative, each with what the entry has in its place:
\* the builder of Generator joins the file tokens onto the working directory
\* and takes "." for an empty one, the other builder takes the record's
\* strings.
ComputedPaths(i) ==
    LET record == entries[i]
        entry  == compileDB[i]
    IN  IF variant = "generator"
        THEN { <<IF record.WorkingDir = <<>> THEN T(".") ELSE record.WorkingDir,
                 entry.Directory>>,
               <<JoinedOnto(record.WorkingDir, record.SourceFile), entry.File>> }
             \cup (IF record.OutputFile = <<>> THEN {}
                   ELSE {<<JoinedOnto(record.WorkingDir, record.OutputFile),
                           entry.Output>>})
        ELSE { <<record.WorkingDir, entry.Directory>>,
               <<record.SourceFile, entry.File>>,
               <<record.OutputFile, entry.Output>> }

\* An absolute path that is neither the absolute directory base nor below it.
OutsideTree(base, path) ==
    /\ IsAbs(base)
    /\ IsAbs(path)
    /\ path # base
    /\ ~HasPrefix(path, base \o T("/"))

\* A database has been built in relative-path mode with a base directory.
BuiltRelativeToBase ==
    /\ DatabaseBuilt
    /\ options.UseRelativePaths
    /\ options.BaseDir # <<>>
    /\ Len(compileDB) = Len(entries)

NoMarkerBefore(i) ==
    \A j \in 1..(i - 1) : trace[j].line \notin EnterLines \cup LeaveLines

\* C15: the loop of ParseMakeLog starts with a directory stack that holds the
\* base directory of the run and nothing else, or nothing when the run has
\* no base directory; so the record of a direct compiler invocation read
\* before any directory marker has the base directory of the run as its
\* working directory, the empty string when there is none.
C15_StackSeededWithBase ==
    /\ (pc = "scan" /\ trace = <<>>) =>
          dirStack = (IF options.BaseDir # <<>> THEN <<options.BaseDir>> ELSE <<>>)
    /\ \A i \in 1..Len(trace) :
          (/\ trace[i].line \in DOMAIN DirectTokens
           /\ ~trace[i].entry.nil
           /\ NoMarkerBefore(i))
             => trace[i].entry.WorkingDir = options.BaseDir


\* C16: the records that a call of ParseMakeLog returns are those that a
\* call on a Parser just made with the same options returns for the same
\* lines, whatever the Parser has read before.
C16_StackPrivateToPass ==
    pc = "parsed" => entries = ParseMakeLogFresh(ParserBaseDir, LinesRead)


\* Lines i and j are an Entering marker and, after it, a Leaving marker that
\* names the same directory.
EnterLeavePair(i, j) ==
    /\ i < j
    /\ \E d \in MarkerDirs, lv \in MarkerLevels, lw \in MarkerLevels :
          /\ trace[i].line = EnterLine(lv, d)
          /\ trace[j].line = LeaveLine(lw, d)

\* C17, as stated: after an Entering marker and a later Leaving marker for
\* the same directory with no other Entering marker between the two, the
\* directory stack is what it was before the Entering marker.
C17_NoPushBetween ==
    \A i \in 1..Len(trace), j \in 1..Len(trace) :
        (/\ EnterLeavePair(i, j)
         /\ \A k \in (i + 1)..(j - 1) : trace[k].line \notin EnterLines)
            => StackAfter(j) = trace[i].stack

\* C17, amended: after an Entering marker and a later Leaving marker for the
\* same directory with no other directory marker, Entering or Leaving,
\* between the two, the directory stack is what it was before the Entering
\* marker, element by element.
C17_NoMarkerBetween ==
    \A i \in 1..Len(trace), j \in 1..Len(trace) :
        (/\ EnterLeavePair(i, j)
         /\ \A k \in (i + 1)..(j - 1) :
               trace[k].line \notin EnterLines \cup LeaveLines)
            => StackAfter(j) = trace[i].stack

\* Entering '/p', a compiler line and Leaving '/p' have been read from a
\* stack of three directories, which is the stack again.
C17_Witness ==
    /\ LinesRead = EnterMainLeave
    /\ trace[1].stack = <<T("/b"), T("/p"), T("/b")>>
    /\ trace[3].stack = <<T("/b"), T("/p"), T("/b"), T("/p")>>
    /\ dirStack = <<T("/b"), T("/p"), T("/b")>>


\* A line of white space only.
IsBlankLine(text) == \A k \in 1..Len(text) : IsSpace(text[k])

\* A line whose first character after leading white space is #.
IsCommentLine(text) ==
    \E k \in 1..Len(text) :
        /\ text[k] = "#"
        /\ \A m \in 1..(k - 1) : IsSpace(text[m])

\* The directory markers of the model, with and without text after them.
EnterMarkerLines ==
    EnterLines \cup {T("make: Entering directory '/p' gcc -c main.c")}

LeaveMarkerLines ==
    LeaveLines
    \cup {T("make[1]: Leaving directory '/p/sub' && gcc -c main.c -o main.o")}

\* C18: a blank line, a comment line and a directory marker give no record,
\* whatever compiler command their text holds; a blank line and a comment
\* line, also one that holds a directory marker, leave the directory stack
\* as it is; an Entering marker only pushes, a Leaving marker only pops.
C18_SkippedLinesNoRecord ==
    /\ Len(entries) = Cardinality({i \in 1..Len(trace) : ~trace[i].entry.nil})
    /\ \A i \in 1..Len(trace) :
        LET text == trace[i].line
        IN  /\ (\/ IsBlankLine(text)
                \/ IsCommentLine(text)
                \/ text \in EnterMarkerLines \cup LeaveMarkerLines)
                  => trace[i].entry.nil
            /\ (IsBlankLine(text) \/ IsCommentLine(text))
                  => StackAfter(i) = trace[i].stack
            /\ text \in EnterMarkerLines
                  => Len(StackAfter(i)) = Len(trace[i].stack) + 1
            /\ text \in LeaveMarkerLines
                  => Len(StackAfter(i)) = Max({0, Len(trace[i].stack) - 1})

\* An Entering marker with a compiler command after it has been read: the
\* directory is on the stack and there is no record.
C18_Witness ==
    /\ Len(trace) = 1
    /\ trace[1].line = T("make: Entering directory '/p' gcc -c main.c")
    /\ trace[1].stack = <<T("/b")>>
    /\ trace[1].entry.nil
    /\ entries = <<>>
    /\ dirStack = <<T("/b"), T("/p")>>


\* The tokens of the invocation on the lines that have tokens before the
\* compiler.
PrefixedTokens ==
    [text \in PrefixedLines |->
        (CHOOSE c \in [prefix : Prefixes, gap : Gaps, tokens : PrefixedInvocations] :
            PrefixedLine(c.prefix, c.gap, c.tokens) = text).tokens]

\* C19: the record of a line with tokens before the compiler has as its
\* arguments the tokens from the first token that matches the compiler
\* pattern on, that token being the compiler of the record, and nothing of
\* the tokens before it, whatever white space separates those.
C19_ArgsStartAtCompiler ==
    \A i \in 1..Len(trace) :
        trace[i].line \in PrefixedLines =>
            /\ ~trace[i].entry.nil
            /\ trace[i].entry.Args = PrefixedTokens[trace[i].line]
            /\ trace[i].entry.Compiler = PrefixedTokens[trace[i].line][1]


\* The tokens of the lines with quotes, backslashes, tabs and runs of
\* blanks: the line split at the white space outside quotes, the quotes
\* taken away, a backslash taken away and the character after it kept.
SplitTokens ==
    { <<T("gcc -DMESSAGE=\"Hello World\" -c main.c"),
        <<T("gcc"), T("-DMESSAGE=Hello World"), T("-c"), T("main.c")>> >>,
      <<T("gcc -DMESSAGE='Hello World' -c main.c"),
        <<T("gcc"), T("-DMESSAGE=Hello World"), T("-c"), T("main.c")>> >>,
      <<T("gcc -DMESSAGE=\\\"Hello\\\" -c main.c"),
        <<T("gcc"), T("-DMESSAGE=\"Hello\""), T("-c"), T("main.c")>> >>,
      <<T("gcc -c my\\ file.c"),
        <<T("gcc"), T("-c"), T("my file.c")>> >>,
      <<T("gcc  -c   main.c"),
        <<T("gcc"), T("-c"), T("main.c")>> >>,
      <<T("gcc\t-c\tmain.c"),
        <<T("gcc"), T("-c"), T("main.c")>> >>,
      <<T("gcc -c main.c -o ") \o <<RuneLead, RuneCont>>,
        <<T("gcc"), T("-c"), T("main.c"), T("-o"), <<RuneLead, RuneCont>> >> >>,
      <<T("gcc -DNAME=\"a b\" -c q.c -o q.o"),
        <<T("gcc"), T("-DNAME=a b"), T("-c"), T("q.c"), T("-o"), T("q.o")>> >>,
      <<T("gcc -c 'my file.c' -o 'my file.o'"),
        <<T("gcc"), T("-c"), T("my file.c"), T("-o"), T("my file.o")>> >> }

\* C20: the arguments that splitCommandLine makes of a compiler line are the
\* pieces of the line between the white space that is outside quotes, with
\* the quote characters taken away and the white space inside quotes kept in
\* its token, and with every backslash taken away and the character after it
\* kept.
C20_SplitAtUnquotedSpace ==
    \A i \in 1..Len(trace) : \A st \in SplitTokens :
        trace[i].line = st[1] =>
            /\ ~trace[i].entry.nil
            /\ trace[i].entry.Args = st[2]


\* The tokens of the lines with backtick expressions, each expression of
\* the form echo '<literal>' or echo <literal> replaced by <literal> where it
\* stands, and each other expression deleted.
SubstitutedTokens ==
    { <<T("gcc -c ") \o Substitution(T("echo 'lib'")) \o T("util.c -o util.o"),
        <<T("gcc"), T("-c"), T("libutil.c"), T("-o"), T("util.o")>> >>,
      <<T("gcc -c ") \o Substitution(T("echo './'")) \o T("main.c -o main.o"),
        <<T("gcc"), T("-c"), T("./main.c"), T("-o"), T("main.o")>> >>,
      <<T("gcc -c ") \o Substitution(T("echo sub/")) \o T("main.c"),
        <<T("gcc"), T("-c"), T("sub/main.c")>> >>,
      <<T("gcc -c ") \o Substitution(T("echo 'src'")) \o T(" main.c"),
        <<T("gcc"), T("-c"), T("src"), T("main.c")>> >>,
      <<T("gcc ") \o Substitution(T("pkg-config --cflags x")) \o T(" -c main.c"),
        <<T("gcc"), T("-c"), T("main.c")>> >>,
      <<T("gcc -c ") \o Substitution(T("echo 'src'")) \o T("/a.c -o a.o"),
        <<T("gcc"), T("-c"), T("src/a.c"), T("-o"), T("a.o")>> >>,
      <<T("gcc -c ") \o Substitution(T("pwd")) \o T("/a.c -o a.o"),
        <<T("gcc"), T("-c"), T("/a.c"), T("-o"), T("a.o")>> >> }

\* C21: in the arguments of a record, every backtick expression of the line
\* whose content is echo '<literal>' or echo <literal> stands as <literal>,
\* with nothing added and nothing else taken away, and every other backtick
\* expression is gone.
C21_SubstitutedInline ==
    \A i \in 1..Len(trace) : \A st \in SubstitutedTokens :
        trace[i].line = st[1] =>
            /\ ~trace[i].entry.nil
            /\ trace[i].entry.Args = st[2]


\* The redirections of RedirectedInvocations.
Redirections ==
    { T("2>&1"), T(">output.log"), T(">>build.log"), T("2>error.log"),
      T("<input.txt"), T("3>debug.log"), T("3>&2"), T("2>>err.log"),
      T("12>>dbg.log"), T(">&1"), T("<in.txt"), T("1>&2"), T("2>e"),
      T(">&2") }

NotRedirection(token) == token \notin Redirections

\* The tokens, other than the redirections, of the lines of RedirectionLines
\* that are not made of RedirectedInvocations.
TokensBesideRedirections ==
    { <<T("gcc -c main.c -o main.o > build.log 2>&1"),
        <<T("gcc"), T("-c"), T("main.c"), T("-o"), T("main.o")>> >>,
      <<T("gcc -DCMP=\"a >b\" -c m.c -o m.o 2>&1"),
        <<T("gcc"), T("-DCMP=a >b"), T("-c"), T("m.c"), T("-o"), T("m.o")>> >> }

\* C22: the arguments of the record of a compiler line with redirections
\* are the tokens of the invocation other than the redirection operators and
\* their targets, unchanged and in their order.
C22_RedirectionsRemoved ==
    \A i \in 1..Len(trace) :
        /\ \A tokens \in RedirectedInvocations :
               trace[i].line = Line(tokens) =>
                   /\ ~trace[i].entry.nil
                   /\ trace[i].entry.Args = SelectSeq(tokens, NotRedirection)
        /\ \A lt \in TokensBesideRedirections :
               trace[i].line = lt[1] =>
                   /\ ~trace[i].entry.nil
                   /\ trace[i].entry.Args = lt[2]


\* The positions of the tokens that stand directly after a -o.
AfterOutputFlag(tokens) ==
    {j \in 2..Len(tokens) : tokens[j - 1] = T("-o")}

\* The positions of the source-file tokens that do not stand after a -o.
SourcesElsewhere(tokens) ==
    {j \in 1..Len(tokens) :
        HasSourceExtension(tokens[j]) /\ j \notin AfterOutputFlag(tokens)}

\* C23: the source file of the record of an invocation with `-o <out>` and a
\* source token elsewhere is a token that does not stand directly after -o,
\* also when <out> has the extension of a source file.
C23_OutputNotSource ==
    \A i \in 1..Len(trace) : \A tokens \in Compiles :
        ( /\ trace[i].line = Line(tokens)
          /\ AfterOutputFlag(tokens) # {}
          /\ SourcesElsewhere(tokens) # {} ) =>
            /\ ~trace[i].entry.nil
            /\ \E j \in SourcesElsewhere(tokens) :
                   trace[i].entry.SourceFile = tokens[j]


\* The lines cd <dir> && <rest> whose <rest> has no compiler in it.
CdWithoutCompiler == {T("cd src && ld a.o"), T("cd gcc-build && make x.c")}

\* C24: a line cd <dir> && <rest> gives a record only when <rest> holds a
\* compiler invocation with a source file; the record then has the compiler
\* and the arguments of that invocation, without cd and <dir>, and as working
\* directory the one that cd <dir> leads to from the top of the stack.
C24_CdChainRecord ==
    \A i \in 1..Len(trace) :
        /\ (trace[i].line \in DOMAIN CdTokens /\ ~trace[i].entry.nil) =>
               /\ CdTokens[trace[i].line].tokens \in Compiles
               /\ trace[i].entry.Compiler = CdTokens[trace[i].line].tokens[1]
               /\ trace[i].entry.Args = CdTokens[trace[i].line].tokens
               /\ <<TopAt(i), CdTokens[trace[i].line].dir,
                    trace[i].entry.WorkingDir>> \in CdFrom
        /\ trace[i].line \in CdWithoutCompiler => trace[i].entry.nil


\* C25: when the Parser has a base directory, the base directory is the
\* bottom element of the directory stack before and after every line that
\* ParseMakeLog reads, and the record of every direct invocation has a
\* working directory that is not empty.
C25_BaseStaysAtBottom ==
    (ParserBaseDir # <<>> /\ pc \in {"scan", "parsed"}) =>
        /\ Len(dirStack) >= 1 /\ dirStack[1] = ParserBaseDir
        /\ \A i \in 1..Len(trace) :
              /\ Len(trace[i].stack) >= 1 /\ trace[i].stack[1] = ParserBaseDir
              /\ (trace[i].line \in DOMAIN DirectTokens /\ ~trace[i].entry.nil)
                    => trace[i].entry.WorkingDir # <<>>


\* C26: the command of every entry that GenerateCompilationDatabase makes in
\* absolute-path mode is the tokens of its record joined by single blanks:
\* the name of the compiler stands once, at the front.
C26_CommandIsJoinedTokens ==
    (DatabaseBuilt /\ variant = "database" /\ ~options.UseRelativePaths) =>
        /\ Len(compileDB) = Len(entries)
        /\ \A i \in 1..Len(compileDB) :
              compileDB[i].Command = JoinStr(entries[i].Args, T(" "))


\* C27: with a make command as the input source, the cleanup function that
\* PrepareReader returned, which waits for the subprocess, eventually
\* returns, whether ExecuteGeneration has returned success or an error.
C27_CleanupReturns == <>(cmd.state = "waited")


\* The tokens of the lines with a quote of one kind inside a section quoted
\* with the other kind: only the quote that opened the section closes it.
NestedQuoteTokens ==
    { <<T("gcc -DMSG=\"it's ok\" -c main.c"),
        <<T("gcc"), T("-DMSG=it's ok"), T("-c"), T("main.c")>> >>,
      <<T("gcc -DMSG='say \"a b\"' -c main.c"),
        <<T("gcc"), T("-DMSG=say \"a b\""), T("-c"), T("main.c")>> >> }

\* C28: an apostrophe inside a double-quoted argument, or a double quote
\* inside a single-quoted one, does not end the quoting: the argument, blanks
\* included, is one token of the record, and the tokens after it are split
\* as they are elsewhere.
C28_QuoteClosedBySameKind ==
    \A i \in 1..Len(trace) : \A st \in NestedQuoteTokens :
        trace[i].line = st[1] =>
            /\ ~trace[i].entry.nil
            /\ trace[i].entry.Args = st[2]


\* The lines of SplitTokens whose tokens are separated by blanks.
BlankSeparated == {st \in SplitTokens : \A k \in 1..Len(st[1]) : st[1][k] # "\t"}

\* C29: the arguments of a record, one after the other, are the line
\* without its blanks outside quotes, its quote characters and its escaping
\* backslashes: nothing of the line is lost, and the token that the end of
\* the line ends is among the arguments, also when the last character of the
\* line is outside ASCII.
C29_NoInputLost ==
    \A i \in 1..Len(trace) : \A st \in BlankSeparated :
        trace[i].line = st[1] =>
            /\ ~trace[i].entry.nil
            /\ JoinStr(trace[i].entry.Args, <<>>) = JoinStr(st[2], <<>>)


\* The command string that GenerateCompilationDatabase makes of a record,
\* before any conversion.
CommandBuilt(record) == JoinStr(<<record.Compiler>> \o record.Args, T(" "))

\* C30: in relative-path mode the command of every entry that
\* GenerateCompilationDatabase makes is the command built of the record with
\* every occurrence of the record's source file replaced by the file of the
\* entry and every occurrence of the record's output file replaced by the
\* output of the entry.
C30_CommandFollowsPaths ==
    (pc = "generated" /\ variant = "database" /\ options.UseRelativePaths) =>
        /\ Len(compileDB) = Len(entries)
        /\ \A i \in 1..Len(compileDB) :
              compileDB[i].Command =
                  ReplaceAll(ReplaceAll(CommandBuilt(entries[i]),
                                        entries[i].SourceFile, compileDB[i].File),
                             entries[i].OutputFile, compileDB[i].Output)

=============================================================================
